---- MODULE Spec2Model ----
(***************************************************************************)
(* Attendance ledger and face-match orchestration of the FaceTrack server. *)
(*                                                                         *)
(* The ledger is the Mongoose handler POST /api/attendance/mark            *)
(* (src/server/src/routes/auth.routes.js, lines 184-293) over the          *)
(* Attendance collection with its unique index on (userId, date)           *)
(* (src/server/src/models/Attendance.js, line 49).  Two things about that  *)
(* handler as it stands in the source are read as follows:                 *)
(*   - line 255 ("attendance.checkOut = {") is an unterminated fragment in *)
(*     front of the check-out section; the handler is read with the        *)
(*     control flow its statements give: cooldown check (244-253), then    *)
(*     already-complete check (258-263), then the check-out write          *)
(*     (265-272);                                                          *)
(*   - the handler uses `now` without declaring it; `now` is read as the   *)
(*     request's timestamp taken where the handler takes its only          *)
(*     timestamp `d` (line 197), as the NeDB handler declares it next to   *)
(*     `today` (src/unnamed/part_003, lines 16-17).                        *)
(*                                                                         *)
(* Every `await` of a handler is a point where other requests run, so a    *)
(* handler is a sequence of atomic steps, one per storage or network call. *)
(* Time is the server's local wall clock in whole minutes.                 *)
(***************************************************************************)
EXTENDS Integers, Sequences, FiniteSets, TLC

(* ---------------------------------------------------------------------- *)
(* Bounds of the model                                                     *)
(* ---------------------------------------------------------------------- *)
\* number of mark requests started in one behaviour
MaxReq == 3
\* number of settings requests (GET, PUT) started in one behaviour
MaxSettingsReq == 3
\* minutes the clock advances in one behaviour
MaxTicks == 6
\* number of face requests (register, scan) started in one behaviour
MaxFaceReq == 2
\* number of auth requests (register, login, refresh, logout) started in one
\* behaviour
MaxAuthReq == 5
\* number of apiFetch calls a page starts in one behaviour
MaxCalls == 3
MaxAdminReq == 2

(* ---------------------------------------------------------------------- *)
(* Program constants                                                       *)
(* ---------------------------------------------------------------------- *)
\* auth.routes.js:247  if (timeDiff < 300000)
CooldownMs == 300000
\* part_001:190  fetchWithRetry(url, options, retries = 1, delayMs = 3000)
Retries == 1
\* fetchWithRetry(url, options, retries = 1, delayMs = 3000)
DelayMs == 3000
\* part_001:366, face.routes.js:125  threshold: 0.55, in hundredths
MatchThresholdSent == 55
\* part_001:272, face.routes.js:44  threshold: 0.65, in hundredths
DuplicateThresholdSent == 65
\* auth.routes.js:112, part_002:449  if (attempts >= 5)
MaxLoginAttempts == 5
\* auth.routes.js:112, part_002:450  Date.now() + 15 * 60 * 1000
LockMs == 900000

Procs == {"p1", "p2"}
Users == {"u1", "u2"}
\* mark request bodies name a registered user, an id with no document, or no id
GhostId == "ghost"
NoId == "none"
UserIdInputs == {"u1", GhostId, NoId}

\* req.body: <<confidence, liveness>>, liveness absent or {is_live: ...}
Bodies == {<<91, "absent">>, <<0, "false">>}
\* liveness: absent, null, an object without is_live, {is_live: true},
\* {is_live: false}
LiveBodies ==
    {<<91, "absent">>, <<91, "null">>, <<91, "empty">>, <<91, "true">>,
     <<0, "false">>}
NoBody == <<0, "absent">>

(* ---------------------------------------------------------------------- *)
(* Strings as the code handles them: "09:30".split(":").map(Number)        *)
(* ---------------------------------------------------------------------- *)
Digits == <<"0", "1", "2", "3", "4", "5", "6", "7", "8", "9">>

DigitValue(c) == (CHOOSE i \in 1..10 : Digits[i] = c) - 1

\* Number(s) for a string of decimal digits; Number("") is 0
RECURSIVE Number(_)
Number(s) ==
    IF Len(s) = 0 THEN 0
    ELSE 10 * Number(SubSeq(s, 1, Len(s) - 1)) + DigitValue(s[Len(s)])

\* s.split(sep): the pieces of s between occurrences of sep
RECURSIVE SplitFrom(_, _, _)
SplitFrom(s, sep, piece) ==
    IF Len(s) = 0 THEN <<piece>>
    ELSE IF Head(s) = sep THEN <<piece>> \o SplitFrom(Tail(s), sep, <<>>)
    ELSE SplitFrom(Tail(s), sep, Append(piece, Head(s)))

Split(s, sep) == SplitFrom(s, sep, <<>>)

Str0900 == <<"0", "9", ":", "0", "0">>
Str0930 == <<"0", "9", ":", "3", "0">>
Str0958 == <<"0", "9", ":", "5", "8">>
Str1000 == <<"1", "0", ":", "0", "0">>

\* how a behaviour starts: the local wall-clock minute and the arrivalDeadline
\* the admin has stored: 09:28 with "09:30", 09:57 with "09:58", and 23:59
\* (the date changes a minute later) with "10:00"
Scenarios == {<<568, Str0930>>, <<597, Str0958>>, <<1439, Str1000>>}
StartTimes == {sc[1] : sc \in Scenarios}

\* auth.routes.js:203 and :211  the fallback deadline
DefaultDeadline == Str0930

(* ---------------------------------------------------------------------- *)
(* Date accessors over the minute clock                                    *)
(* ---------------------------------------------------------------------- *)
getHours(t) == (t \div 60) % 24
getMinutes(t) == t % 60
\* milliseconds
getTime(t) == t * 60000
\* d.toISOString().split("T")[0] after shifting d by the timezone offset:
\* the local calendar date, here the day number
DateString(t) == t \div 1440

(* ---------------------------------------------------------------------- *)
(* State                                                                   *)
(* ---------------------------------------------------------------------- *)
VARIABLES
    clock,        \* local wall clock, minutes
    ticks,        \* minutes elapsed since the start of the behaviour
    users,        \* ids of the stored User documents
    settings,     \* the AdminSettings collection, in insertion order
    attendance,   \* the Attendance collection: a set of documents
    nextId,       \* next _id the collection hands out
    reqs,         \* mark requests started so far
    pc,           \* per request slot: where its handler stands
    uid,          \* per request slot: req.body.userId
    now,          \* per request slot: the handler's timestamp
    deadline,     \* per request slot: settings.arrivalDeadline as read
    att,          \* per request slot: the document findOne returned
    seen,         \* per request slot: the key's record when the call was made
    asked,        \* per slot of a call that found no record of its key when
                  \* it was made: the settings response last sent by then
    resp,         \* the kind of the response sent last
    okIn,         \* per (userId, date): check-in responses sent
    okOut,        \* per (userId, date): check-out responses sent
    build,        \* which face.routes.js the server runs
    status,       \* per user: User.status
    face,         \* per user: User.faceEmbedding.vector
    freqs,        \* face requests started so far
    fpc,          \* per request slot: where its face handler stands
    fuser,        \* per request slot: req.user.id
    probe,        \* per request slot: req.body.image
    cands,        \* per request slot: the users the handler loaded
    embedded,     \* per request slot: embedData.embedding
    reply,        \* per request slot: what the face service answered last
    calls,        \* per request slot: fetches sent, per endpoint
    fresp,        \* the face response sent last
    fcarry,       \* the bestScore or the message detail that response carries
    wire,         \* per request slot: the last exchange with the face service
    held,         \* per user, the scan results a page holds and has not marked
    matches,      \* per user, the scans that recognized the user
    marks,        \* per user, the mark calls the pages have made
    mbody,        \* per request slot: confidence and liveness of the req.body
                  \* of a mark request sent with MarkWith
    faithful,     \* the duplicate check has reported every duplicate so far
    phase,        \* the server: seeding its defaults, or listening
    sreqs,        \* settings requests started so far
    spc,          \* per admin slot: where its settings handler stands
    sdoc,         \* per admin slot: the _id findOne returned, 0 for null
    supd,         \* per admin slot: req.body of a PUT
    sresp,        \* the settings response sent last
    acct,         \* per user: email, employeeId, loginAttempts, lockUntil,
                  \* refreshToken of the stored User document
    second,       \* the second (iat) in which a token was signed last
    areqs,        \* auth requests started so far
    apc,          \* per request slot: where its auth handler stands
    aloc,         \* per request slot: the handler's locals
    aresp,        \* the auth response sent last
    accepts,      \* per refresh token issued: how often /refresh accepted it
    store,        \* the page's localStorage: accessToken, refreshToken, user
    page,         \* the page: open, or leaving for '/'
    ccalls,       \* apiFetch calls started so far
    cpc,          \* per call slot: where apiFetch stands
    cloc,         \* per call slot: the Authorization header and refresh data
    sent,         \* per call slot: the fetches the call has made
    cret,         \* per call slot: what the call returned last
    greqs,        \* requests to the admin routes started so far
    gpc,          \* per admin slot: where its users handler stands
    greq,         \* per admin slot: the request: its header, req.user, params
    gresp,        \* the response the admin routes sent last
    removed       \* the users whose deletion has been answered with success

ledgerVars == <<clock, ticks, settings, attendance, nextId, reqs,
                pc, uid, now, deadline, att, seen, asked, resp, okIn, okOut>>
faceVars == <<build, status, face, freqs, fpc, fuser, probe, cands,
              embedded, reply, calls, fresp, fcarry, wire, faithful>>
markVars == <<clock, ticks, attendance, nextId, reqs,
              pc, uid, now, deadline, att, seen, asked, resp, okIn, okOut>>
adminVars == <<phase, sreqs, spc, sdoc, supd, sresp>>
clientVars == <<held, matches, marks, mbody>>
sessionVars == <<acct, second, areqs, apc, aloc, aresp, accepts>>
browserVars == <<store, page, ccalls, cpc, cloc, sent, cret>>
guardVars == <<greqs, gpc, greq, gresp, removed>>
authVars == <<sessionVars, browserVars, guardVars>>
nonSession == <<users, ledgerVars, faceVars, adminVars, clientVars, browserVars, guardVars>>
nonBrowser == <<users, ledgerVars, faceVars, adminVars, clientVars, sessionVars, guardVars>>
\* what the users routes of the admin router leave alone
nonUsers == <<clock, ticks, settings, nextId, reqs, pc, uid, now, deadline, att,
              seen, asked, resp, okIn, okOut, build, face, freqs, fpc, fuser,
              probe, cands, embedded, reply, calls, fresp, fcarry, wire,
              faithful, adminVars, clientVars, sessionVars, browserVars>>
vars == <<users, ledgerVars, faceVars, adminVars, clientVars, authVars>>

\* a Date field that is not set
NoTime == 0 - 1
\* a sub-record mongoose leaves unset
NoStamp == [time |-> NoTime, confidence |-> 0, method |-> "", liveness |-> FALSE]
\* findOne's null
NoDoc == [_id |-> 0, userId |-> NoId, date |-> -1,
          checkIn |-> NoStamp, checkOut |-> NoStamp, status |-> ""]

Days == {DateString(t) : t \in {s + k : s \in StartTimes, k \in 0..(MaxTicks + 1)}}
Keys == Users \X Days

HasTime(stamp) == stamp.time # NoTime

\* the documents of one (userId, date) key
Matching(u, d) == {r \in attendance : r.userId = u /\ r.date = d}

\* Attendance.findOne({userId, date}): the first matching document, or null
FindOne(u, d) ==
    IF Matching(u, d) = {} THEN NoDoc
    ELSE CHOOSE r \in Matching(u, d) : \A q \in Matching(u, d) : r._id <= q._id

\* NO_RECORD / CHECKED_IN / CHECKED_OUT of a findOne result
StateOf(doc) ==
    IF doc._id = 0 THEN "NO_RECORD"
    ELSE IF HasTime(doc.checkOut) THEN "CHECKED_OUT"
    ELSE "CHECKED_IN"

(* ---------------------------------------------------------------------- *)
(* Storage primitives                                                      *)
(* ---------------------------------------------------------------------- *)
\* a collection without the index accepts every insert
InsertAllowedNoIndex(doc) == TRUE

\* Attendance.js:49  attendanceSchema.index({userId: 1, date: 1}, {unique: true}):
\* an insert is accepted when no document of the collection has the key,
\* whatever the requests in flight have read
InsertAllowed(doc) == Matching(doc.userId, doc.date) = {}

\* a read that never finds the stored document
SettingsNeverFound == FALSE

\* AdminSettings.findOne(): the first document, or null
SettingsFound == Len(settings) > 0

\* the sub-record both transitions write (lines 217-222 and 265-270)
\* a sub-record whose liveness has no default
StampNoDefault(t, conf, live) ==
    [time |-> t, confidence |-> conf, method |-> "face_scan",
     liveness |-> live = "true"]

\* liveness?.is_live: undefined when liveness is undefined or null, and when
\* the object has no is_live
IsLive(live) == IF live \in {"absent", "null", "empty"} THEN "undefined" ELSE live

Stamp(t, conf, live) ==
    [time |-> t,
     confidence |-> conf,                            \* confidence || 0
     method |-> "face_scan",                         \* method || "face_scan"
     liveness |-> IF IsLive(live) = "undefined"      \* liveness?.is_live ?? true
                  THEN TRUE ELSE IsLive(live) = "true"]

(* ---------------------------------------------------------------------- *)
(* Pure parts of the mark handler                                          *)
(* ---------------------------------------------------------------------- *)
IsLateAtOrAfter(t, dl) ==
    LET parts == Split(IF Len(dl) = 0 THEN DefaultDeadline ELSE dl, ":")
        deadlineH == Number(parts[1])
        deadlineM == Number(parts[2])
    IN  getHours(t) > deadlineH \/ (getHours(t) = deadlineH /\ getMinutes(t) >= deadlineM)

\* lines 211-212
IsLate(t, dl) ==
    LET parts == Split(IF Len(dl) = 0 THEN DefaultDeadline ELSE dl, ":")
        deadlineH == Number(parts[1])
        deadlineM == Number(parts[2])
    IN  getHours(t) > deadlineH \/ (getHours(t) = deadlineH /\ getMinutes(t) > deadlineM)

TooSoonNever(t, doc) == FALSE

TooSoonInclusive(t, doc) ==
    /\ HasTime(doc.checkIn)
    /\ getTime(t) - getTime(doc.checkIn.time) <= CooldownMs

\* lines 245-247
TooSoon(t, doc) ==
    /\ HasTime(doc.checkIn)
    /\ getTime(t) - getTime(doc.checkIn.time) < CooldownMs

AlreadyOutNever(doc) == FALSE

\* line 258
AlreadyOut(doc) == HasTime(doc.checkOut)

\* a save that works the status out again from the stored deadline
SaveCheckOutRecompute(id, stamp) ==
    {IF r._id = id
     THEN [r EXCEPT !.checkOut = stamp,
                    !.status = IF IsLate(r.checkIn.time, settings[1].arrivalDeadline)
                               THEN "late" ELSE "present"]
     ELSE r : r \in attendance}

\* attendance.save() after setting checkOut: $set of the modified path on the
\* document with that _id, whatever its stored checkOut is
SaveCheckOut(id, stamp) ==
    {IF r._id = id THEN [r EXCEPT !.checkOut = stamp] ELSE r : r \in attendance}

(* ---------------------------------------------------------------------- *)
(* The face routes: stored profiles, the face service, fetchWithRetry      *)
(* ---------------------------------------------------------------------- *)
\* the three face.routes.js of the repository: the NeDB one (part_001:51-178),
\* the Mongoose one (face.routes.js) and the Mongoose one with fetchWithRetry
\* (part_001:180-420)
Builds == {"nedb", "plain", "retry"}

\* a face, as the camera image shows it and as the stored vector encodes it
Faces == {"fA", "fB"}
NoFace == "empty"
NoImage == "noimage"
Images == Faces \cup {NoImage}
FaceUserInputs == Users \cup {GhostId}
Statuses == {"active", "inactive", "suspended"}
\* the users whose status the admin changes
StatusTargets == {"u1"}
\* the values the admin sets it to
StatusInputs == {"active", "inactive"}

NoReply == [status |-> "none", body |-> "none"]
NoCalls == [dup |-> 0, embed |-> 0, match |-> 0]

\* how the face service treats one attempt that is sent and waited for: it
\* answers 2xx, 4xx or 5xx, it cannot be reached, or it does not answer in time
Behaviours == {"ok", "client", "server", "down", "slow"}

\* what one fetch attempt ends in: a 2xx, a 4xx or a 5xx response, a network
\* error, or a timeout (in the retry build the abort of
\* AbortSignal.timeout(90000), elsewhere the timeout of the socket)
Outcomes == {"ok", "client", "server", "neterr", "timeout"}
Thrown == {"neterr", "timeout"}

\* fetch(url, options) of one attempt: with a signal that has already fired
\* fetch rejects at once, whatever the service would do
Attempt(beh, aborted) ==
    IF aborted \/ beh = "slow" THEN "timeout"
    ELSE IF beh = "down" THEN "neterr"
    ELSE beh

\* part_001:266-275, 293-298, 360-369: the options object carries ONE
\* AbortSignal.timeout(90000), which fetchWithRetry (line 193) passes to every
\* attempt: once an attempt has timed out the later ones start aborted
OutcomesOf(behs) ==
    [i \in 1..Len(behs) |->
        Attempt(behs[i], \E j \in 1..(i - 1) : behs[j] = "slow")]

\* a helper that gives up after the first attempt
fetchNoRetry(outs, attempt, retries) ==
    [res |-> outs[1], attempts |-> 1, waited |-> 0]

\* a helper that retries whatever is not a 2xx
RECURSIVE fetchRetryAnyError(_, _, _)
fetchRetryAnyError(outs, attempt, retries) ==
    LET o == outs[attempt + 1]
    IN  IF o = "ok" \/ attempt >= retries
        THEN [res |-> o, attempts |-> attempt + 1, waited |-> attempt * DelayMs]
        ELSE fetchRetryAnyError(outs, attempt + 1, retries)

\* a helper that retries at once
RECURSIVE fetchNoDelay(_, _, _)
fetchNoDelay(outs, attempt, retries) ==
    LET o == outs[attempt + 1]
    IN  IF o \in {"ok", "client"} \/ attempt >= retries
        THEN [res |-> o, attempts |-> attempt + 1, waited |-> 0]
        ELSE fetchNoDelay(outs, attempt + 1, retries)

\* part_001:190-210: the loop runs from attempt to retries; every continue
\* follows one wait of delayMs, so `attempt` waits precede the attempt that
\* returns or throws
RECURSIVE fetchWithRetry(_, _, _)
fetchWithRetry(outs, attempt, retries) ==
    LET o == outs[attempt + 1]
    IN  IF o \in {"ok", "client"}
        THEN [res |-> o, attempts |-> attempt + 1, waited |-> attempt * DelayMs]
        ELSE IF attempt < retries
             THEN fetchWithRetry(outs, attempt + 1, retries)
             ELSE [res |-> o, attempts |-> attempt + 1,
                   waited |-> attempt * DelayMs]

\* the behaviours of the service over the attempts a handler's fetch can make
Oracle(b) ==
    IF b = "retry" THEN [1..(Retries + 1) -> Behaviours] ELSE [1..1 -> Behaviours]

\* the fetch of a handler: node-fetch without a signal in the NeDB and the
\* plain build, fetchWithRetry in the retry build
Fetch(b, behs) ==
    IF b = "retry"
    THEN fetchWithRetry(OutcomesOf(behs), 0, Retries)
    ELSE [res |-> Attempt(behs[1], FALSE), attempts |-> 1, waited |-> 0]

\* the exchange as the claims look at it: the threshold in the request body
\* and the behaviours of the service on the attempts made
Wire(th, behs, f) ==
    [threshold |-> th, oracle |-> SubSeq(behs, 1, f.attempts), waited |-> f.waited]
NoWire == [threshold |-> 0, oracle |-> <<>>, waited |-> 0]

\* the bodies the face service can send with a response: with a 2xx the
\* answer (for a match the user_id, for no match one of two best scores), with
\* a 4xx or 5xx a JSON body with a detail field ("json") or a body that is
\* not JSON ("text")
NoMatchBodies == {"nomatchLow", "nomatchHigh"}
DupBodies(res) ==
    IF res = "ok" THEN {"duplicate", "unique"}
    ELSE IF res \in Thrown THEN {"none"} ELSE {"json", "text"}
EmbedBodies(res) ==
    IF res = "ok" THEN {"embedding"}
    ELSE IF res \in Thrown THEN {"none"} ELSE {"json", "text"}
MatchBodies(res, cs) ==
    IF res = "ok" THEN NoMatchBodies \cup {GhostId} \cup {c[1] : c \in cs}
    ELSE IF res \in Thrown THEN {"none"} ELSE {"json", "text"}

\* a test that takes every body for a match
NotMatchedNever(body) == FALSE

\* part_001:378, face.routes.js:136, part_001:155   if (!matchData.matched)
NotMatched(body) == body \in NoMatchBodies

\* matchData.best_score, a JSON number, as it is written in the body
best_score(body) ==
    IF body = "nomatchLow" THEN "0.31"
    ELSE IF body = "nomatchHigh" THEN "0.52"
    ELSE "undefined"

\* a helper that never reads the body
safeJsonErrorFallback(body, fallbackMsg) == fallbackMsg

\* part_001:213-220: data.detail of a JSON body; of a body that is not JSON
\* res.json() has used the stream up, so res.text() throws as well
safeJsonError(body, fallbackMsg) ==
    IF body = "json" THEN "detail" ELSE fallbackMsg

\* part_001:98-99, face.routes.js:65-66, 129-130: err.detail || fallback
DetailOr(body, fallbackMsg) ==
    IF body = "json" THEN "detail" ELSE fallbackMsg

\* the catch block: part_001:324-333 and 408-417 tell a timeout apart,
\* face.routes.js:89-92 and 162-165 do not
Caught(b, res) ==
    IF b = "retry" /\ res = "timeout" THEN "ServiceTimeout" ELSE "ServiceError"

HasFace(u) == face[u] # NoFace

\* part_001:253-256, face.routes.js:25-28: no status in the query
OthersWithFaces(u) == {<<v, face[v]>> : v \in {w \in users \ {u} : HasFace(w)}}

ActiveWithFacesAnyStatus == {<<v, face[v]>> : v \in {w \in users : HasFace(w)}}

\* a query on the status alone
ActiveAnyProfile == {<<v, face[v]>> : v \in {w \in users : status[w] = "active"}}

\* part_001:344-347, face.routes.js:103-106
ActiveWithFaces ==
    {<<v, face[v]>> : v \in {w \in users : status[w] = "active" /\ HasFace(w)}}

IsDuplicateNever(body) == FALSE

\* part_001:284, face.routes.js:50   if (dupData.is_duplicate)
IsDuplicate(body) == body = "duplicate"

(* ---------------------------------------------------------------------- *)
(* The settings collection                                                 *)
(* ---------------------------------------------------------------------- *)
AdminProcs == {"a1", "a2"}

\* part_002:84-94, 259-263, server.js:193-204: the document the code creates
\* when it finds none; thresholds in hundredths
DefaultSettings ==
    [arrivalDeadline |-> Str0930, matchThreshold |-> 55,
     duplicateThreshold |-> 65, livenessRequired |-> TRUE]

\* req.body of PUT /settings
DeadlineUpdates == {[arrivalDeadline |-> Str0900]}
ThresholdUpdates == {[matchThreshold |-> 60, duplicateThreshold |-> 70]}
Updates == DeadlineUpdates \cup ThresholdUpdates
NoUpdate == [none |-> TRUE]

\* $set: the fields of upd replace those of doc
Merge(doc, upd) ==
    [f \in DOMAIN doc |-> IF f \in DOMAIN upd THEN upd[f] ELSE doc[f]]

\* findOne(): the _id (here the position) of the first document, 0 for null
FirstSettings == IF Len(settings) = 0 THEN 0 ELSE 1

NoSettingsResp == [kind |-> "none", settings |-> NoUpdate]

(* ---------------------------------------------------------------------- *)
(* Accounts and sessions: the auth routes                                  *)
(* ---------------------------------------------------------------------- *)
\* the auth routes exist twice: over NeDB (auth.routes.js:1-173) and over
\* Mongoose (part_002:333-526); the variable build tells which server runs
Mongoose == build # "nedb"
AuthBuilds == {"nedb", "plain"}

\* jwt.sign({id}, JWT_REFRESH_SECRET, {expiresIn}): the token is a function of
\* the payload and of the second it is signed in (iat)
Token(u, s) == [id |-> u, iat |-> s]
\* no token: null in the store, nothing in a request body
NoToken == [id |-> NoId, iat |-> 0]
\* a string that jwt.verify rejects
BadToken == [id |-> "garbage", iat |-> 0]

\* the addresses requests carry, and what normalizeEmail() makes of them
EmailInputs == {"ann@x.io", "ANN@x.io", "bob@x.io"}
normalizeEmail(e) == IF e = "ANN@x.io" THEN "ann@x.io" ELSE e
EmployeeIds == {"E1", "E2"}

\* the fields of a User document the auth routes work with; peak is kept
\* beside them as history: the highest loginAttempts stored since
\* loginAttempts was 0 last
Account(e, emp) ==
    [email |-> e, employeeId |-> emp, loginAttempts |-> 0,
     lockUntil |-> NoTime, refreshToken |-> NoToken, peak |-> 0]
\* no document with that _id
NoAccount == Account("none", "none")

\* the accounts of the registered users, each logged out
Registered ==
    [u \in Users |-> IF u = "u1" THEN Account("ann@x.io", "E1")
                     ELSE Account("bob@x.io", "E2")]

NoLocals ==
    [kind |-> "none", user |-> NoId, attempts |-> 0, lockUntil |-> NoTime,
     peak |-> 0, stored |-> NoToken, pwd |-> "none", token |-> NoToken,
     email |-> "none", emp |-> "none"]

NoAuthResp == [kind |-> "none", user |-> NoId, token |-> NoToken]

\* no auth request is in progress; accs are the stored accounts and toks the
\* refresh tokens issued so far
SessionInit(accs, toks) ==
    /\ acct = accs
    /\ second = 0
    /\ areqs = 0
    /\ apc = [p \in Procs |-> "idle"]
    /\ aloc = [p \in Procs |-> NoLocals]
    /\ aresp = NoAuthResp
    /\ accepts = [t \in toks |-> 0]

\* part_000:7-24: what the page keeps in localStorage; removeItem leaves null
NoStore == [accessToken |-> "null", refreshToken |-> "null", user |-> "null"]
NoData == [accessToken |-> "none", refreshToken |-> "none"]
NoCallLocals == [auth |-> "none", body |-> "none", got |-> "none", data |-> NoData]
NoFetches == [first |-> 0, refresh |-> 0, retry |-> 0]

\* no apiFetch call is in progress
BrowserInit(st) ==
    /\ store = st
    /\ page = "open"
    /\ ccalls = 0
    /\ cpc = [c \in Procs |-> "idle"]
    /\ cloc = [c \in Procs |-> NoCallLocals]
    /\ sent = [c \in Procs |-> NoFetches]
    /\ cret = [c \in Procs |-> "none"]

\* middleware/auth.js:8, 16: the Authorization header of a request and what
\* jwt.verify finds in its token
NoHeader == [bearer |-> FALSE, signed |-> FALSE, expired |-> FALSE,
             id |-> NoId, role |-> "none"]
Bearer(signed, expired, id, role) ==
    [bearer |-> TRUE, signed |-> signed, expired |-> expired,
     id |-> id, role |-> role]
Headers ==
    {NoHeader,
     [NoHeader EXCEPT !.signed = TRUE, !.id = "adm", !.role = "admin"],
     Bearer(FALSE, FALSE, "adm", "admin"),
     Bearer(TRUE, TRUE, "adm", "admin"),
     Bearer(TRUE, FALSE, "u2", "student"),
     Bearer(TRUE, FALSE, "adm", "admin")}

\* req.user before verifyToken has set it
NoUser == [id |-> NoId, role |-> "none"]
NoRequest == [hdr |-> NoHeader, user |-> NoUser, id |-> NoId, status |-> "none"]
NoAdminResp == [kind |-> "none", hdr |-> NoHeader]

\* no request to the admin routes is in progress
GuardInit ==
    /\ greqs = 0
    /\ gpc = [a \in AdminProcs |-> "idle"]
    /\ greq = [a \in AdminProcs |-> NoRequest]
    /\ gresp = NoAdminResp
    /\ removed = {}

AuthInit == SessionInit(Registered, {}) /\ BrowserInit(NoStore) /\ GuardInit

(* ---------------------------------------------------------------------- *)
(* Init                                                                    *)
(* ---------------------------------------------------------------------- *)
\* no attendance has been taken and no mark request is in progress
NoMarks(t) ==
    /\ clock = t
    /\ ticks = 0
    /\ attendance = {}
    /\ nextId = 1
    /\ reqs = 0
    /\ pc = [p \in Procs |-> "idle"]
    /\ uid = [p \in Procs |-> NoId]
    /\ now = [p \in Procs |-> 0]
    /\ deadline = [p \in Procs |-> <<>>]
    /\ att = [p \in Procs |-> NoDoc]
    /\ seen = [p \in Procs |-> "NO_RECORD"]
    /\ asked = [p \in Procs |-> NoSettingsResp]
    /\ resp = "none"
    /\ okIn = [k \in Keys |-> 0]
    /\ okOut = [k \in Keys |-> 0]

\* server.js:191-206  seedDefaults has stored the settings document, which the
\* admin has since set; the users are registered; no attendance has been taken
MarkInit(t) ==
    /\ users = Users
    /\ NoMarks(t)

LedgerInit(sc) ==
    /\ settings = <<[DefaultSettings EXCEPT !.arrivalDeadline = sc[2]]>>
    /\ MarkInit(sc[1])

\* part_004: a new user is "active" and has no face vector; no face request
\* is in progress
FaceInit(b) ==
    /\ build = b
    /\ status = [u \in Users |-> "active"]
    /\ face = [u \in Users |-> NoFace]
    /\ freqs = 0
    /\ fpc = [p \in Procs |-> "idle"]
    /\ fuser = [p \in Procs |-> NoId]
    /\ probe = [p \in Procs |-> NoImage]
    /\ cands = [p \in Procs |-> {}]
    /\ embedded = [p \in Procs |-> NoFace]
    /\ reply = [p \in Procs |-> NoReply]
    /\ calls = [p \in Procs |-> NoCalls]
    /\ fresp = "none"
    /\ fcarry = "none"
    /\ wire = [p \in Procs |-> NoWire]
    /\ faithful = TRUE

\* server.js:234-236: the server listens once seedDefaults has returned; no
\* settings request is in progress
AdminInit(ph) ==
    /\ phase = ph
    /\ sreqs = 0
    /\ spc = [a \in AdminProcs |-> "idle"]
    /\ sdoc = [a \in AdminProcs |-> 0]
    /\ supd = [a \in AdminProcs |-> NoUpdate]
    /\ sresp = NoSettingsResp

\* part_000:340-345: no page holds a scan result
ClientInit ==
    /\ held = [u \in Users |-> 0]
    /\ matches = [u \in Users |-> 0]
    /\ marks = [u \in Users |-> 0]
    /\ mbody = [p \in Procs |-> NoBody]

Init ==
    \E sc \in Scenarios :
        LedgerInit(sc) /\ FaceInit("retry") /\ AdminInit("listening") /\ AuthInit /\ ClientInit

(* ---------------------------------------------------------------------- *)
(* The clock                                                               *)
(* ---------------------------------------------------------------------- *)
Tick ==
    /\ ticks < MaxTicks
    /\ clock' = clock + 1
    /\ ticks' = ticks + 1
    /\ UNCHANGED <<users, settings, attendance, nextId, reqs,
                   pc, uid, now, deadline, att, seen, asked, resp, okIn, okOut, faceVars, adminVars, clientVars, authVars>>

(* ---------------------------------------------------------------------- *)
(* POST /api/attendance/mark                                               *)
(* ---------------------------------------------------------------------- *)
\* res.json(...): the response is sent and the handler's locals are gone
Finish(p, r) ==
    /\ pc' = [pc EXCEPT ![p] = "idle"]
    /\ resp' = r
    /\ uid' = [uid EXCEPT ![p] = NoId]
    /\ now' = [now EXCEPT ![p] = 0]
    /\ deadline' = [deadline EXCEPT ![p] = <<>>]
    /\ att' = [att EXCEPT ![p] = NoDoc]
    /\ seen' = [seen EXCEPT ![p] = "NO_RECORD"]
    /\ asked' = [asked EXCEPT ![p] = NoSettingsResp]

\* lines 186-199: validation, User.findById, the request's timestamp and date
MarkCall(p, u) ==
    /\ pc[p] = "idle"
    /\ reqs < MaxReq
    /\ reqs' = reqs + 1
    /\ IF u = NoId THEN Finish(p, "BadRequest")
       ELSE IF u \notin users THEN Finish(p, "UserNotFound")
       ELSE /\ pc' = [pc EXCEPT ![p] = "settings"]
            /\ uid' = [uid EXCEPT ![p] = u]
            /\ now' = [now EXCEPT ![p] = clock]
            /\ seen' = [seen EXCEPT ![p] = StateOf(FindOne(u, DateString(clock)))]
            /\ asked' = [asked EXCEPT ![p] =
                    IF FindOne(u, DateString(clock))._id = 0
                    THEN sresp ELSE NoSettingsResp]
            /\ UNCHANGED <<deadline, att, resp>>
    /\ UNCHANGED <<clock, ticks, users, settings, attendance, nextId, okIn, okOut, faceVars, adminVars, authVars>>

\* the mark route as the server runs it, whoever the caller is
MarkBegin(p, u) == MarkCall(p, u) /\ UNCHANGED clientVars

\* lines 202-203: AdminSettings.findOne and its fallback
MarkSettings(p) ==
    /\ pc[p] = "settings"
    /\ deadline' = [deadline EXCEPT ![p] =
            IF SettingsFound THEN settings[1].arrivalDeadline ELSE DefaultDeadline]
    /\ pc' = [pc EXCEPT ![p] = "find"]
    /\ UNCHANGED <<clock, ticks, users, settings, attendance, nextId, reqs,
                   uid, now, att, seen, asked, resp, okIn, okOut, faceVars, adminVars, clientVars, authVars>>

\* line 206: Attendance.findOne({userId, date: todayString})
MarkFind(p) ==
    /\ pc[p] = "find"
    /\ att' = [att EXCEPT ![p] = FindOne(uid[p], DateString(now[p]))]
    /\ pc' = [pc EXCEPT ![p] = "found"]
    /\ UNCHANGED <<clock, ticks, users, settings, attendance, nextId, reqs,
                   uid, now, deadline, seen, asked, resp, okIn, okOut, faceVars, adminVars, clientVars, authVars>>

\* a document created without its checkIn sub-record
NewDocNoCheckIn(p, conf, live) ==
    [_id |-> nextId, userId |-> uid[p], date |-> DateString(now[p]),
     checkIn |-> NoStamp,
     checkOut |-> NoStamp,
     status |-> IF IsLate(now[p], deadline[p]) THEN "late" ELSE "present"]

\* lines 214-224
NewDoc(p, conf, live) ==
    [_id |-> nextId, userId |-> uid[p], date |-> DateString(now[p]),
     checkIn |-> Stamp(now[p], conf, live),
     checkOut |-> NoStamp,
     status |-> IF IsLate(now[p], deadline[p]) THEN "late" ELSE "present"]

\* lines 209-241: no record was found; Attendance.create succeeds
MarkCheckIn(p, conf, live) ==
    /\ pc[p] = "found"
    /\ att[p]._id = 0
    /\ InsertAllowed(NewDoc(p, conf, live))
    /\ attendance' = attendance \cup {NewDoc(p, conf, live)}
    /\ nextId' = nextId + 1
    /\ okIn' = [okIn EXCEPT ![<<uid[p], DateString(now[p])>>] = @ + 1]
    /\ Finish(p, "check-in")
    /\ UNCHANGED <<clock, ticks, users, settings, reqs, okOut, faceVars, adminVars, clientVars, authVars>>

\* lines 214 and 289-292: Attendance.create rejects with the duplicate-key
\* error; the catch answers 500
MarkCreateFails(p, conf, live) ==
    /\ pc[p] = "found"
    /\ att[p]._id = 0
    /\ ~InsertAllowed(NewDoc(p, conf, live))
    /\ Finish(p, "ServerError")
    /\ UNCHANGED <<clock, ticks, users, settings, attendance, nextId, reqs, okIn, okOut, faceVars, adminVars, clientVars, authVars>>

\* lines 244-253: 429 within the cooldown
MarkTooSoon(p) ==
    /\ pc[p] = "found"
    /\ att[p]._id # 0
    /\ TooSoon(now[p], att[p])
    /\ Finish(p, "TooSoonToCheckOut")
    /\ UNCHANGED <<clock, ticks, users, settings, attendance, nextId, reqs, okIn, okOut, faceVars, adminVars, clientVars, authVars>>

\* lines 258-263: 409 when the document read has a check-out
MarkAlreadyComplete(p) ==
    /\ pc[p] = "found"
    /\ att[p]._id # 0
    /\ ~TooSoon(now[p], att[p])
    /\ AlreadyOut(att[p])
    /\ Finish(p, "AlreadyComplete")
    /\ UNCHANGED <<clock, ticks, users, settings, attendance, nextId, reqs, okIn, okOut, faceVars, adminVars, clientVars, authVars>>

\* lines 265-287: set checkOut on the document read and save it
MarkCheckOut(p, conf, live) ==
    /\ pc[p] = "found"
    /\ att[p]._id # 0
    /\ ~TooSoon(now[p], att[p])
    /\ ~AlreadyOut(att[p])
    /\ attendance' = SaveCheckOut(att[p]._id, Stamp(now[p], conf, live))
    /\ okOut' = [okOut EXCEPT ![<<uid[p], DateString(now[p])>>] = @ + 1]
    /\ Finish(p, "check-out")
    /\ UNCHANGED <<clock, ticks, users, settings, nextId, reqs, okIn, faceVars, adminVars, clientVars, authVars>>

MarkEnd(p) ==
    \/ \E b \in Bodies : MarkCheckIn(p, b[1], b[2])
    \/ \E b \in Bodies : MarkCreateFails(p, b[1], b[2])
    \/ MarkTooSoon(p)
    \/ MarkAlreadyComplete(p)
    \/ \E b \in Bodies : MarkCheckOut(p, b[1], b[2])

MarkStep(p) ==
    \/ \E u \in UserIdInputs : MarkBegin(p, u)
    \/ MarkSettings(p)
    \/ MarkFind(p)
    \/ MarkEnd(p)

Next ==
    \/ Tick
    \/ \E p \in Procs : MarkStep(p)

Spec == Init /\ [][Next]_vars

(* ---------------------------------------------------------------------- *)
(* POST /api/face/register, POST /api/face/scan, PUT /users/:id/status     *)
(* ---------------------------------------------------------------------- *)
\* res.json(...): the response is sent and the handler's locals are gone;
\* reply and calls keep what the request has seen and sent
DoneWith(p, r, x) ==
    /\ fpc' = [fpc EXCEPT ![p] = "idle"]
    /\ fresp' = r
    /\ fcarry' = x
    /\ fuser' = [fuser EXCEPT ![p] = NoId]
    /\ probe' = [probe EXCEPT ![p] = NoImage]
    /\ cands' = [cands EXCEPT ![p] = {}]
    /\ embedded' = [embedded EXCEPT ![p] = NoFace]

\* a response without a bestScore and with a fixed message
Done(p, r) == DoneWith(p, r, "none")

\* what a finished request has seen and sent is kept until the next request
\* arrives
Fresh(kept, none) == [q \in Procs |-> IF fpc[q] = "idle" THEN none ELSE kept[q]]

\* the slots are interchangeable: a request takes the first free one
FirstIdle == IF fpc["p1"] = "idle" THEN "p1" ELSE "p2"

\* a request arrives at slot p
Arrive(p) ==
    /\ fpc[p] = "idle"
    /\ p = FirstIdle
    /\ freqs < MaxFaceReq
    /\ freqs' = freqs + 1

\* part_001:239-250, face.routes.js:11-22, part_001:61-67 (the NeDB route has
\* no already-registered check)
RegBegin(p, u, img) ==
    /\ Arrive(p)
    /\ reply' = Fresh(reply, NoReply)
    /\ calls' = Fresh(calls, NoCalls)
    /\ wire' = Fresh(wire, NoWire)
    /\ UNCHANGED faithful
    /\ IF img = NoImage THEN Done(p, "ImageRequired")
       ELSE IF u \notin users THEN Done(p, "UserNotFound")
       ELSE IF build # "nedb" /\ HasFace(u) THEN Done(p, "AlreadyRegistered")
       ELSE /\ fpc' = [fpc EXCEPT ![p] = "regFind"]
            /\ fuser' = [fuser EXCEPT ![p] = u]
            /\ probe' = [probe EXCEPT ![p] = img]
            /\ UNCHANGED <<cands, embedded, fresp, fcarry>>
    /\ UNCHANGED <<users, ledgerVars, adminVars, clientVars, authVars, build, status, face>>

\* part_001:253-258, face.routes.js:25-30, part_001:70-73
RegFind(p) ==
    /\ fpc[p] = "regFind"
    /\ cands' = [cands EXCEPT ![p] = OthersWithFaces(fuser[p])]
    /\ fpc' = [fpc EXCEPT ![p] =
                 IF OthersWithFaces(fuser[p]) = {} THEN "embed" ELSE "dup"]
    /\ UNCHANGED <<users, ledgerVars, adminVars, clientVars, authVars, build, status, face, freqs, fuser, probe,
                   embedded, reply, calls, fresp, fcarry, wire, faithful>>

\* part_001:258-290, face.routes.js:30-56, part_001:73-91.  Only the retry
\* build looks at dupRes.ok; the others parse whatever body came
RegDup(p) ==
    /\ fpc[p] = "dup"
    /\ \E behs \in Oracle(build) : \E body \in DupBodies(Fetch(build, behs).res) :
        LET f == Fetch(build, behs) IN
        /\ reply' = [reply EXCEPT ![p] = [status |-> f.res, body |-> body]]
        /\ calls' = [calls EXCEPT ![p].dup = @ + f.attempts]
        /\ wire' = [wire EXCEPT ![p] = Wire(DuplicateThresholdSent, behs, f)]
        /\ faithful' = (faithful /\ (probe[p] \in {c[2] : c \in cands[p]}
                                        => f.res = "ok" /\ body = "duplicate"))
        /\ IF f.res \in Thrown THEN Done(p, Caught(build, f.res))
           ELSE IF f.res # "ok" /\ build = "retry"
                THEN DoneWith(p, "BadGateway",
                              safeJsonError(body, "Duplicate check failed."))
           ELSE IF body = "text" THEN Done(p, Caught(build, "parse"))
           ELSE IF IsDuplicate(body) THEN Done(p, "DuplicateFace")
           ELSE /\ fpc' = [fpc EXCEPT ![p] = "embed"]
                /\ UNCHANGED <<fuser, probe, cands, embedded, fresp, fcarry>>
    /\ UNCHANGED <<users, ledgerVars, adminVars, clientVars, authVars, build, status, face, freqs>>

\* part_001:293-305, face.routes.js:59-70, part_001:94-106.  The face service
\* encodes the face the image shows
RegEmbed(p) ==
    /\ fpc[p] = "embed"
    /\ \E behs \in Oracle(build) : \E body \in EmbedBodies(Fetch(build, behs).res) :
        LET f == Fetch(build, behs) IN
        /\ reply' = [reply EXCEPT ![p] = [status |-> f.res, body |-> body]]
        /\ calls' = [calls EXCEPT ![p].embed = @ + f.attempts]
        /\ wire' = [wire EXCEPT ![p] = Wire(0, behs, f)]
        /\ UNCHANGED faithful
        /\ IF f.res \in Thrown THEN Done(p, Caught(build, f.res))
           ELSE IF f.res # "ok" /\ build = "retry"
                THEN DoneWith(p, "BadGateway",
                              safeJsonError(body, "Failed to process face."))
           ELSE IF f.res # "ok" /\ body = "text" THEN Done(p, Caught(build, "parse"))
           ELSE IF f.res # "ok"
                THEN DoneWith(p, "FaceError",
                              DetailOr(body, "Face processing failed"))
           ELSE /\ fpc' = [fpc EXCEPT ![p] = "save"]
                /\ embedded' = [embedded EXCEPT ![p] = probe[p]]
                /\ UNCHANGED <<fuser, probe, cands, fresp, fcarry>>
    /\ UNCHANGED <<users, ledgerVars, adminVars, clientVars, authVars, build, status, face, freqs>>

\* part_001:308-322, face.routes.js:73-87, part_001:108-120
RegSave(p) ==
    /\ fpc[p] = "save"
    /\ face' = [face EXCEPT ![fuser[p]] = embedded[p]]
    /\ Done(p, "Registered")
    /\ UNCHANGED <<users, ledgerVars, adminVars, clientVars, authVars, build, status, freqs, reply, calls,
                   wire, faithful>>

\* part_001:338-358, face.routes.js:97-116, part_001:126-141
ScanBegin(p, img) ==
    /\ Arrive(p)
    /\ reply' = Fresh(reply, NoReply)
    /\ calls' = Fresh(calls, NoCalls)
    /\ wire' = Fresh(wire, NoWire)
    /\ UNCHANGED faithful
    /\ IF img = NoImage THEN Done(p, "ImageRequired")
       ELSE IF ActiveWithFaces = {} THEN Done(p, "NoProfilesEnrolled")
       ELSE /\ fpc' = [fpc EXCEPT ![p] = "match"]
            /\ probe' = [probe EXCEPT ![p] = img]
            /\ cands' = [cands EXCEPT ![p] = ActiveWithFaces]
            /\ UNCHANGED <<fuser, embedded, fresp, fcarry>>
    /\ UNCHANGED <<users, ledgerVars, adminVars, clientVars, authVars, build, status, face>>

\* part_001:360-406, face.routes.js:119-160, part_001:143-171.  Only the retry
\* build checks that the matched id is one it sent; the others dereference
\* the undefined lookup and land in the catch block
ScanAnswer(p) ==
    /\ fpc[p] = "match"
    /\ \E behs \in Oracle(build) :
       \E body \in MatchBodies(Fetch(build, behs).res, cands[p]) :
        LET f == Fetch(build, behs) IN
        /\ reply' = [reply EXCEPT ![p] = [status |-> f.res, body |-> body]]
        /\ calls' = [calls EXCEPT ![p].match = @ + f.attempts]
        /\ wire' = [wire EXCEPT ![p] = Wire(MatchThresholdSent, behs, f)]
        /\ UNCHANGED faithful
        /\ IF f.res \in Thrown THEN Done(p, Caught(build, f.res))
           ELSE IF f.res # "ok" /\ build = "retry"
                THEN DoneWith(p, "BadGateway",
                              safeJsonError(body, "Face recognition failed."))
           ELSE IF f.res # "ok" /\ body = "text" THEN Done(p, Caught(build, "parse"))
           ELSE IF f.res # "ok"
                THEN DoneWith(p, "FaceError",
                              DetailOr(body, "Face recognition failed."))
           ELSE IF NotMatched(body)
                THEN DoneWith(p, "NotRecognized", best_score(body))
           ELSE IF body \in {c[1] : c \in cands[p]} THEN Done(p, "Recognized")
           ELSE IF build = "retry" THEN Done(p, "MatchedUserNotFound")
           ELSE Done(p, Caught(build, "TypeError"))
    /\ UNCHANGED <<users, ledgerVars, adminVars, authVars, build, status, face, freqs>>

\* the scan route as the server runs it, whoever the caller is
ScanMatch(p) == ScanAnswer(p) /\ UNCHANGED clientVars

\* part_002:39-56
AdminSetStatus(u, st) ==
    /\ st \in Statuses
    /\ u \in users
    /\ status[u] # st
    /\ status' = [status EXCEPT ![u] = st]
    /\ UNCHANGED <<users, ledgerVars, adminVars, clientVars, authVars, build, face, freqs, fpc, fuser, probe,
                   cands, embedded, reply, calls, fresp, fcarry, wire, faithful>>

FaceStep(p) ==
    \/ \E u \in FaceUserInputs : \E img \in Images : RegBegin(p, u, img)
    \/ RegFind(p)
    \/ RegDup(p)
    \/ RegEmbed(p)
    \/ RegSave(p)
    \/ \E img \in Images : ScanBegin(p, img)
    \/ ScanMatch(p)

NextFace ==
    \/ \E p \in Procs : FaceStep(p)
    \/ \E u \in StatusTargets : \E st \in StatusInputs : AdminSetStatus(u, st)

InitFace ==
    /\ LedgerInit(<<568, Str0930>>)
    /\ \E b \in Builds : FaceInit(b)
    /\ AdminInit("listening") /\ AuthInit /\ ClientInit

SpecFace == InitFace /\ [][NextFace]_vars

\* face.routes.js:38-46, 59-63, 119-128, part_001:79, 94, 143: fetch is
\* called with no signal and no timeout option (node-fetch waits without
\* limit); when the face service accepts the request and never answers, the
\* await never settles
Hang(p) ==
    /\ build # "retry"
    /\ fpc[p] \in {"dup", "embed", "match"}
    /\ fpc' = [fpc EXCEPT ![p] = "pending"]
    /\ UNCHANGED <<users, ledgerVars, adminVars, clientVars, authVars, build, status, face,
                   freqs, fuser, probe, cands, embedded, reply, calls, fresp,
                   fcarry, wire, faithful>>

\* the steps a handler takes once its request has arrived
Progress(p) ==
    RegFind(p) \/ RegDup(p) \/ RegEmbed(p) \/ RegSave(p) \/ ScanMatch(p)

NextLive ==
    \/ NextFace
    \/ \E p \in Procs : Hang(p)

\* every await that settles lets its handler go on: database calls always,
\* the calls to the face service when the service answers or the signal fires
SpecLive ==
    InitFace /\ [][NextLive]_vars /\ \A p \in Procs : WF_vars(Progress(p))

\* the face routes of a deployment where u1 has enrolled her face earlier
InitEnrolled ==
    /\ LedgerInit(<<568, Str0930>>)
    /\ \E b \in Builds :
        /\ build = b
        /\ status = [u \in Users |-> "active"]
        /\ face = [u \in Users |-> IF u = "u1" THEN "fA" ELSE NoFace]
        /\ freqs = 0
        /\ fpc = [p \in Procs |-> "idle"]
        /\ fuser = [p \in Procs |-> NoId]
        /\ probe = [p \in Procs |-> NoImage]
        /\ cands = [p \in Procs |-> {}]
        /\ embedded = [p \in Procs |-> NoFace]
        /\ reply = [p \in Procs |-> NoReply]
        /\ calls = [p \in Procs |-> NoCalls]
        /\ fresp = "none"
        /\ fcarry = "none"
        /\ wire = [p \in Procs |-> NoWire]
        /\ faithful = TRUE
    /\ AdminInit("listening") /\ AuthInit /\ ClientInit

SpecEnrolled == InitEnrolled /\ [][NextFace]_vars

(* ---------------------------------------------------------------------- *)
(* ScanPage.handleScan: the page scans, then marks                         *)
(* ---------------------------------------------------------------------- *)
\* a page that calls mark again with the result it has used
AfterMarkKeep(h, u) == h

\* part_000:366-381: the mark call is the last use handleScan makes of
\* scanData
AfterMark(h, u) == [h EXCEPT ![u] = @ - 1]

\* part_000:356-363: the page gets the answer of its scan; it keeps
\* scanData.user.id only if scanData.success
PageScan(p) ==
    /\ ScanAnswer(p)
    /\ IF fresp' = "Recognized"
       THEN /\ held' = [held EXCEPT ![reply'[p].body] = @ + 1]
            /\ matches' = [matches EXCEPT ![reply'[p].body] = @ + 1]
       ELSE UNCHANGED <<held, matches>>
    /\ UNCHANGED <<marks, mbody>>

\* part_000:365-371: apiPost('/attendance/mark', {userId: scanData.user.id,
\* ...}) reaches the mark route
PageMark(p, u) ==
    /\ held[u] > 0
    /\ MarkCall(p, u)
    /\ held' = AfterMark(held, u)
    /\ marks' = [marks EXCEPT ![u] = @ + 1]
    /\ UNCHANGED <<matches, mbody>>

PageStep(p) ==
    \/ \E img \in Images : ScanBegin(p, img)
    \/ PageScan(p)
    \/ \E u \in Users : PageMark(p, u)
    \/ MarkSettings(p)
    \/ MarkFind(p)
    \/ MarkEnd(p)

\* the cooldown passes: the clock moves on by CooldownMs
Later ==
    /\ ticks + (CooldownMs \div 60000) <= MaxTicks
    /\ clock' = clock + (CooldownMs \div 60000)
    /\ ticks' = ticks + (CooldownMs \div 60000)
    /\ UNCHANGED <<users, settings, attendance, nextId, reqs,
                   pc, uid, now, deadline, att, seen, asked, resp, okIn, okOut,
                   faceVars, adminVars, clientVars, authVars>>

NextPage ==
    \/ Later
    \/ \E p \in Procs : PageStep(p)

\* the record of a check-in made at minute t
CheckedIn(id, u, t) ==
    [_id |-> id, userId |-> u, date |-> DateString(t),
     checkIn |-> Stamp(t, 91, "absent"),
     checkOut |-> NoStamp,
     status |-> IF IsLate(t, Str0930) THEN "late" ELSE "present"]

\* both users have enrolled their faces; it is 09:28 and u1 has just checked
\* in through the page; requests are counted from here on
InitPage ==
    /\ settings = <<DefaultSettings>>
    /\ clock = 568
    /\ ticks = 0
    /\ users = Users
    /\ attendance = {CheckedIn(1, "u1", 568)}
    /\ nextId = 2
    /\ reqs = 0
    /\ pc = [p \in Procs |-> "idle"]
    /\ uid = [p \in Procs |-> NoId]
    /\ now = [p \in Procs |-> 0]
    /\ deadline = [p \in Procs |-> <<>>]
    /\ att = [p \in Procs |-> NoDoc]
    /\ seen = [p \in Procs |-> "NO_RECORD"]
    /\ asked = [p \in Procs |-> NoSettingsResp]
    /\ resp = "check-in"
    /\ okIn = [k \in Keys |-> IF k = <<"u1", DateString(568)>> THEN 1 ELSE 0]
    /\ okOut = [k \in Keys |-> 0]
    /\ \E b \in Builds :
        /\ build = b
        /\ status = [u \in Users |-> "active"]
        /\ face = [u \in Users |-> IF u = "u1" THEN "fA" ELSE "fB"]
        /\ freqs = 0
        /\ fpc = [p \in Procs |-> "idle"]
        /\ fuser = [p \in Procs |-> NoId]
        /\ probe = [p \in Procs |-> NoImage]
        /\ cands = [p \in Procs |-> {}]
        /\ embedded = [p \in Procs |-> NoFace]
        /\ reply = [p \in Procs |-> NoReply]
        /\ calls = [p \in Procs |-> NoCalls]
        /\ fresp = "none"
        /\ fcarry = "none"
        /\ wire = [p \in Procs |-> NoWire]
        /\ faithful = TRUE
    /\ AdminInit("listening") /\ AuthInit
    /\ held = [u \in Users |-> 0]
    /\ matches = [u \in Users |-> IF u = "u1" THEN 1 ELSE 0]
    /\ marks = [u \in Users |-> IF u = "u1" THEN 1 ELSE 0]
    /\ mbody = [p \in Procs |-> NoBody]

SpecPage == InitPage /\ [][NextPage]_vars

(* ---------------------------------------------------------------------- *)
(* seedDefaults, GET /settings, PUT /settings                              *)
(* ---------------------------------------------------------------------- *)
\* server.js:191-192  const settings = await AdminSettings.findOne()
SeedFind ==
    /\ phase = "seed"
    /\ phase' = IF FirstSettings = 0 THEN "seedCreate" ELSE "listening"
    /\ UNCHANGED <<users, ledgerVars, faceVars, clientVars, authVars, sreqs, spc, sdoc, supd, sresp>>

\* server.js:193-205  await AdminSettings.create({...})
SeedCreate ==
    /\ phase = "seedCreate"
    /\ settings' = Append(settings, DefaultSettings)
    /\ phase' = "listening"
    /\ UNCHANGED <<users, markVars, faceVars, clientVars, authVars, sreqs, spc, sdoc, supd, sresp>>

\* server.js:176-189, 207-209: the admin part of seedDefaults throws, the
\* catch logs it and the settings part is skipped
SeedFails ==
    /\ phase = "seed"
    /\ phase' = "listening"
    /\ UNCHANGED <<users, ledgerVars, faceVars, clientVars, authVars, sreqs, spc, sdoc, supd, sresp>>

\* res.json(...) of a settings route
Respond(a, kind, doc) ==
    /\ sresp' = [kind |-> kind, settings |-> doc]
    /\ spc' = [spc EXCEPT ![a] = "idle"]
    /\ sdoc' = [sdoc EXCEPT ![a] = 0]
    /\ supd' = [supd EXCEPT ![a] = NoUpdate]

SettingsArrive(a) ==
    /\ phase = "listening"
    /\ spc[a] = "idle"
    /\ sreqs < MaxSettingsReq
    /\ sreqs' = sreqs + 1

\* part_002:79-82, 97: findOne, and the answer when a document is found
GetFind(a) ==
    /\ SettingsArrive(a)
    /\ IF FirstSettings = 0
       THEN /\ spc' = [spc EXCEPT ![a] = "getCreate"]
            /\ UNCHANGED <<sdoc, supd, sresp>>
       ELSE Respond(a, "ok", settings[FirstSettings])
    /\ UNCHANGED <<users, ledgerVars, faceVars, clientVars, authVars, phase>>

\* a handler that answers with the defaults and stores nothing
GetCreateNoStore(a) ==
    /\ spc[a] = "getCreate"
    /\ Respond(a, "ok", DefaultSettings)
    /\ UNCHANGED <<users, ledgerVars, faceVars, clientVars, authVars, phase, sreqs>>

\* part_002:83-97  settings = await AdminSettings.create({...defaults})
GetCreate(a) ==
    /\ spc[a] = "getCreate"
    /\ settings' = Append(settings, DefaultSettings)
    /\ Respond(a, "ok", DefaultSettings)
    /\ UNCHANGED <<users, markVars, faceVars, clientVars, authVars, phase, sreqs>>

\* part_002:104-111  updates = req.body; settings = await findOne()
PutFind(a, upd) ==
    /\ SettingsArrive(a)
    /\ supd' = [supd EXCEPT ![a] = upd]
    /\ sdoc' = [sdoc EXCEPT ![a] = FirstSettings]
    /\ spc' = [spc EXCEPT ![a] = IF FirstSettings = 0 THEN "putCreate" ELSE "putUpdate"]
    /\ UNCHANGED <<users, ledgerVars, faceVars, clientVars, authVars, phase, sresp>>

\* part_002:111-112  AdminSettings.create(updates): the schema defaults fill
\* the fields the body leaves out
PutCreate(a) ==
    /\ spc[a] = "putCreate"
    /\ settings' = Append(settings, Merge(DefaultSettings, supd[a]))
    /\ Respond(a, "ok", Merge(DefaultSettings, supd[a]))
    /\ UNCHANGED <<users, markVars, faceVars, clientVars, authVars, phase, sreqs>>

\* part_002:113-121  findOneAndUpdate({_id}, {$set: updates}, {new: true})
PutUpdate(a) ==
    /\ spc[a] = "putUpdate"
    /\ settings' = [settings EXCEPT ![sdoc[a]] = Merge(@, supd[a])]
    /\ Respond(a, "ok", Merge(settings[sdoc[a]], supd[a]))
    /\ UNCHANGED <<users, markVars, faceVars, clientVars, authVars, phase, sreqs>>

SettingsStep(a) ==
    \/ GetFind(a)
    \/ GetCreate(a)
    \/ \E upd \in Updates : PutFind(a, upd)
    \/ PutCreate(a)
    \/ PutUpdate(a)

NextSettings ==
    \/ SeedFind
    \/ SeedCreate
    \/ SeedFails
    \/ \E a \in AdminProcs : SettingsStep(a)

\* the server starts on a fresh database, or on one that has its document
InitSettings ==
    /\ settings \in {<<>>, <<[DefaultSettings EXCEPT !.arrivalDeadline = Str0958]>>}
    /\ MarkInit(568)
    /\ FaceInit("retry")
    /\ AdminInit("seed") /\ AuthInit /\ ClientInit

SpecSettings == InitSettings /\ [][NextSettings]_vars

\* the face routes while an admin tunes the thresholds, once
NextTune ==
    \/ \E p \in Procs : FaceStep(p)
    \/ \E upd \in ThresholdUpdates : sreqs = 0 /\ PutFind("a1", upd)
    \/ PutUpdate("a1")

SpecTune == InitFace /\ [][NextTune]_vars

\* the mark route while an admin moves the arrival deadline, once
NextDeadline ==
    \/ Tick
    \/ \E p \in Procs : MarkStep(p)
    \/ \E upd \in DeadlineUpdates : sreqs = 0 /\ PutFind("a1", upd)
    \/ PutUpdate("a1")

InitDeadline ==
    LedgerInit(<<568, Str0930>>) /\ FaceInit("retry") /\ AdminInit("listening") /\ AuthInit /\ ClientInit

SpecDeadline == InitDeadline /\ [][NextDeadline]_vars

(* ---------------------------------------------------------------------- *)
(* Properties of the ledger                                                *)
(* ---------------------------------------------------------------------- *)
\* the step in which the handler of slot p sends its response
Completes(p) == pc[p] = "found" /\ pc'[p] = "idle"

\* the stored record of the key the handler of slot p works on
KeyRecord(p) == FindOne(uid[p], DateString(now[p]))

\* minutes between the check-in of the key's record and the call of slot p
SinceCheckIn(p) == now[p] - KeyRecord(p).checkIn.time

MinuteOfDay(t) == t % 1440

C3_AtMostOneCheckOut == \A k \in Keys : okOut[k] <= 1

\* C4: a call that observed no record and whose insert loses the race is
\* answered as if the record had existed (TooSoonToCheckOut, check-out or
\* AlreadyComplete), never with an error.
C4_LostRaceNotSurfaced ==
    [][\A p \in Procs :
        (Completes(p) /\ att[p]._id = 0 /\ KeyRecord(p)._id # 0)
            => resp' \in {"TooSoonToCheckOut", "check-out", "AlreadyComplete"}]_vars

C6_AlreadyComplete ==
    [][\A p \in Procs :
        (Completes(p) /\ seen[p] = "CHECKED_OUT")
            => (resp' = "AlreadyComplete" /\ attendance' = attendance)]_vars

C6_Witness ==
    /\ resp = "AlreadyComplete"
    /\ \E r \in attendance : HasTime(r.checkIn) /\ HasTime(r.checkOut)

DeadlineMinute ==
    LET parts == Split(settings[1].arrivalDeadline, ":")
    IN  60 * Number(parts[1]) + Number(parts[2])

\* C8: a record's status is "late" exactly when its check-in time of day is
\* strictly after arrivalDeadline, and "present" otherwise; with the
\* deadline 09:30, 09:45 is late, 09:15 and 09:30 are present.
C8_LateIffAfterDeadline ==
    /\ \A r \in attendance :
            r.status = IF MinuteOfDay(r.checkIn.time) > DeadlineMinute
                       THEN "late" ELSE "present"
    /\ IsLate(585, Str0930)
    /\ ~IsLate(555, Str0930)
    /\ ~IsLate(570, Str0930)

\* a check-in at exactly the deadline is stored as present, and one a
\* minute later would be late
C8_Witness ==
    \E r \in attendance :
        /\ MinuteOfDay(r.checkIn.time) = DeadlineMinute
        /\ r.status = "present"


(* ---------------------------------------------------------------------- *)
(* Properties of the face routes                                           *)
(* ---------------------------------------------------------------------- *)
\* no user is both active and the owner of a non-empty face vector
NoActiveProfile == \A u \in users : ~(status[u] = "active" /\ face[u] # NoFace)

\* the face service answered the duplicate check with is_duplicate: true
DuplicateReply == [status |-> "ok", body |-> "duplicate"]

\* C9: a scan that arrives with an image while no active user has a non-empty
\* face vector is answered NoProfilesEnrolled at once, and its request has
\* sent no fetch to the face service.
C9_NoProfilesNoOracleCall ==
    [][\A p \in Procs : \A img \in Faces :
        (NoActiveProfile /\ freqs' # freqs /\ ScanBegin(p, img))
            => /\ fresp' = "NoProfilesEnrolled"
               /\ fpc'[p] = "idle"
               /\ calls'[p] = NoCalls]_vars

\* C9 witness: a scan has been answered NoProfilesEnrolled while a stored
\* profile exists, whose owner is not active.
C9_Witness ==
    /\ fresp = "NoProfilesEnrolled"
    /\ NoActiveProfile
    /\ \E u \in users : face[u] # NoFace /\ status[u] # "active"
    /\ \A p \in Procs : fpc[p] = "idle" /\ calls[p] = NoCalls

\* C10: when the face service reports the probe as a duplicate, the enroll
\* request ends in DuplicateFace at that step, has sent no embed fetch, and
\* leaves every stored profile as it was.
C10_DuplicateRejected ==
    [][\A p \in Procs :
        (reply'[p] = DuplicateReply /\ RegDup(p))
            => /\ fresp' = "DuplicateFace"
               /\ fpc'[p] = "idle"
               /\ calls'[p].embed = 0
               /\ face' = face]_vars

\* C10 witness: an enroll request was reported a duplicate and ended in
\* DuplicateFace without an embed fetch, its user still without a profile.
C10_Witness ==
    /\ fresp = "DuplicateFace"
    /\ \E p \in Procs :
        /\ reply[p] = DuplicateReply
        /\ fpc[p] = "idle"
        /\ calls[p].dup > 0
        /\ calls[p].embed = 0
    /\ \E u \in users : face[u] = NoFace


(* ---------------------------------------------------------------------- *)
(* Properties of the calls to the face service                             *)
(* ---------------------------------------------------------------------- *)
\* the step in which the handler of slot p gets the outcome of a fetch
FetchStep(p) == fpc[p] \in {"dup", "embed", "match"} /\ calls'[p] # calls[p]

\* the attempts that step has sent
CallsMade(p) ==
    (calls'[p].dup - calls[p].dup) + (calls'[p].embed - calls[p].embed)
        + (calls'[p].match - calls[p].match)

Failing == {"down", "slow"}

\* C11: in the retry build, when the first attempt times out and the service
\* would answer the retry with a 2xx, the handler gets that 2xx.
C11_RetryAfterTimeoutUsed ==
    [][\A p \in Procs :
        (FetchStep(p) /\ build = "retry" /\ wire'[p].oracle = <<"slow", "ok">>)
            => reply'[p].status = "ok"]_vars

C13_TimeoutDistinct ==
    [][\A p \in Procs :
        (FetchStep(p) /\ reply'[p].status = "timeout")
            => fresp' = "ServiceTimeout"]_vars

\* C14: a first attempt that the service answers with a 2xx or a 4xx is the
\* only attempt, and its response is the one the handler gets.
C14_NoRetryBelow500 ==
    [][\A p \in Procs :
        (FetchStep(p) /\ wire'[p].oracle # <<>>
            /\ wire'[p].oracle[1] \in {"ok", "client"})
            => /\ CallsMade(p) = 1
               /\ reply'[p].status = wire'[p].oracle[1]]_vars

\* C14 witness: in the retry build a match call answered 4xx ended the scan
\* after one attempt.
C14_Witness ==
    /\ build = "retry"
    /\ fresp = "BadGateway"
    /\ \E p \in Procs :
        /\ wire[p].oracle = <<"client">>
        /\ reply[p].status = "client"
        /\ calls[p].match = 1


(* ---------------------------------------------------------------------- *)
(* Properties of the settings                                              *)
(* ---------------------------------------------------------------------- *)
\* C15: the threshold in the body of a match call is the stored
\* matchThreshold, and the one in the body of a duplicate check is the
\* stored duplicateThreshold, at the time of the call.
C15_ThresholdFromSettings ==
    [][\A p \in Procs :
        /\ ScanMatch(p) => wire'[p].threshold = settings[1].matchThreshold
        /\ RegDup(p) => wire'[p].threshold = settings[1].duplicateThreshold]_vars

C17_SettingsSingleton == Len(settings) <= 1

\* C18: no step changes the status or the checkIn sub-record of a stored
\* attendance record, and no step removes a record: check-outs, rejected
\* marks and changes of arrivalDeadline leave them as the check-in wrote them.
C18_StatusFixedAtCheckIn ==
    [][\A r \in attendance :
        \E q \in attendance' :
            q._id = r._id /\ q.status = r.status /\ q.checkIn = r.checkIn]_vars

\* C18 witness: a record checked in as present under the deadline 09:30 has
\* been checked out after the admin moved the deadline to 09:00, under which
\* its check-in would be late, and is still present.
C18_Witness ==
    /\ settings[1].arrivalDeadline = Str0900
    /\ \E r \in attendance :
        /\ HasTime(r.checkOut)
        /\ r.status = "present"
        /\ IsLate(r.checkIn.time, Str0900)

\* C19: every stored attendance record that has a checkOut time has a
\* checkIn time.
C19_CheckOutOnlyAfterCheckIn ==
    \A r \in attendance : HasTime(r.checkOut) => HasTime(r.checkIn)

\* C19 witness: a record has been checked out, at least the cooldown after
\* its check-in.
C19_Witness ==
    \E r \in attendance :
        /\ HasTime(r.checkIn)
        /\ HasTime(r.checkOut)
        /\ getTime(r.checkOut.time) - getTime(r.checkIn.time) >= CooldownMs

\* C20: in the Mongoose builds, as long as the duplicate check has reported
\* every duplicate it was asked about, no two users hold the same face.
C20_OneIdentityPerFace ==
    (faithful /\ build # "nedb")
        => \A u, v \in users : (u # v /\ face[u] = face[v]) => face[u] = NoFace

\* C21: a stored face profile never changes: a step leaves the profile of
\* every user who has one as it is (an enroll for such a user is rejected),
\* in every build.
C21_ProfileImmutable ==
    [][\A u \in Users : face[u] # NoFace => face'[u] = face[u]]_vars

\* C22: the candidates a scan loads are exactly users who are active and have
\* a profile at the time of the load, with the profile they have then, and
\* the user a scan returns as recognized is one of the candidates it loaded.
C22_ScanOnlyActiveProfiles ==
    [][\A p \in Procs :
        /\ (fpc[p] = "idle" /\ fpc'[p] = "match")
              => \A c \in cands'[p] :
                    /\ status[c[1]] = "active"
                    /\ face[c[1]] # NoFace
                    /\ c[2] = face[c[1]]
        /\ (fpc[p] = "match" /\ fpc'[p] = "idle" /\ fresp' = "Recognized")
              => reply'[p].body \in {c[1] : c \in cands[p]}]_vars

\* C22 witness: a scan has returned u2 as recognized while u1, who has a
\* profile, is not active.
C22_Witness ==
    /\ fresp = "Recognized"
    /\ status["u1"] # "active"
    /\ face["u1"] # NoFace
    /\ \E p \in Procs :
        fpc[p] = "idle" /\ calls[p].match > 0 /\ reply[p].body = "u2"

\* C23: when the face service answers a match call with matched = false, the
\* scan ends in that step with NotRecognized (not with a failure), the
\* response carries the best score of that answer, no attempt is made after
\* that answer, and users, statuses, profiles and attendance stay as they are.
C23_NoMatchIsNormal ==
    [][\A p \in Procs :
        (fpc[p] = "match" /\ calls'[p] # calls[p]
            /\ reply'[p].status = "ok" /\ reply'[p].body \in NoMatchBodies)
            => /\ fpc'[p] = "idle"
               /\ fresp' = "NotRecognized"
               /\ reply'[p].body = "nomatchLow" => fcarry' = "0.31"
               /\ reply'[p].body = "nomatchHigh" => fcarry' = "0.52"
               /\ Len(wire'[p].oracle) = CallsMade(p)
               /\ wire'[p].oracle[CallsMade(p)] = "ok"
               /\ UNCHANGED <<users, status, face, attendance>>]_vars

\* C23 witness: a scan against the enrolled u1 has been answered NotRecognized
\* with the best score 0.52 after one attempt.
C23_Witness ==
    /\ fresp = "NotRecognized"
    /\ fcarry = "0.52"
    /\ face["u1"] = "fA"
    /\ \E p \in Procs :
        /\ fpc[p] = "idle"
        /\ reply[p] = [status |-> "ok", body |-> "nomatchHigh"]
        /\ calls[p].match = 1

\* C24: when a call to the face service made by an enroll or a scan ends in a
\* timeout, a connection failure or a 4xx/5xx answer, the request ends in
\* that step with a failure, and profiles and attendance stay as they are.
C24_FailedCallAborts ==
    [][\A p \in Procs :
        (FetchStep(p) /\ reply'[p].status # "ok")
            => /\ fpc'[p] = "idle"
               /\ fresp' \in {"ServiceError", "ServiceTimeout", "BadGateway",
                              "FaceError"}
               /\ UNCHANGED <<face, attendance>>]_vars

C26_CheckInUsesCurrentDeadline ==
    [][\A p \in Procs :
        (pc[p] = "found" /\ pc'[p] = "idle" /\ asked[p].kind = "ok"
            /\ attendance' # attendance /\ att[p]._id = 0)
            => \E r \in attendance' \ attendance :
                  /\ r.userId = uid[p]
                  /\ (r.status = "late")
                        <=> IsLate(now[p], asked[p].settings.arrivalDeadline)
                  /\ asked[p].settings.arrivalDeadline = settings[1].arrivalDeadline
                  /\ r.status \in {"late", "present"}]_vars

\* C26 witness: the deadline was moved from 09:30 to 09:00 and a check-in
\* made after that, before 09:30, is late.
C26_Witness ==
    /\ sresp.kind = "ok"
    /\ settings[1].arrivalDeadline = Str0900
    /\ resp = "check-in"
    /\ \E r \in attendance :
          r.status = "late" /\ r.checkIn.time < 570

\* C27: every enroll and every scan that has started is answered in the end.
C27_EveryRequestAnswered ==
    \A p \in Procs : (fpc[p] # "idle") ~> (fpc[p] = "idle")

\* C28: a call through fetchWithRetry makes at least one and at most
\* Retries + 1 attempts, has waited DelayMs before every attempt but the
\* first, and ends with what its last attempt ended in: the response that
\* attempt got, or the failure it threw.
C28_RetryBudget ==
    [][\A p \in Procs :
        (FetchStep(p) /\ build = "retry")
            => /\ CallsMade(p) \in 1..(Retries + 1)
               /\ Len(wire'[p].oracle) = CallsMade(p)
               /\ wire'[p].waited = DelayMs * (CallsMade(p) - 1)
               /\ reply'[p].status = OutcomesOf(wire'[p].oracle)[CallsMade(p)]
               /\ reply'[p].status \in Outcomes]_vars

\* C28 witness: a match call got a 5xx, waited DelayMs, tried again and could
\* not connect; the scan was answered with the failure of that last attempt.
C28_Witness ==
    /\ build = "retry"
    /\ fresp = "ServiceError"
    /\ \E p \in Procs :
        /\ wire[p].oracle = <<"server", "down">>
        /\ wire[p].waited = DelayMs
        /\ calls[p].match = Retries + 1
        /\ reply[p].status = "neterr"

C30_Last5xxReturned ==
    [][\A p \in Procs :
        (FetchStep(p) /\ build = "retry"
            /\ CallsMade(p) = Retries + 1
            /\ wire'[p].oracle[Retries + 1] = "server"
            /\ \A i \in 1..Retries : wire'[p].oracle[i] # "slow")
            => /\ reply'[p].status = "server"
               /\ fpc'[p] = "idle"
               /\ fresp' = "BadGateway"
               /\ reply'[p].body = "json" => fcarry' = "detail"
               /\ UNCHANGED <<face, attendance>>]_vars

\* C30 witness: an embed call was answered 5xx twice, the second time with a
\* JSON body; the enroll was answered 502 with that body's detail and no
\* profile was stored.
C30_Witness ==
    /\ build = "retry"
    /\ fresp = "BadGateway"
    /\ fcarry = "detail"
    /\ \A u \in Users : face[u] = NoFace
    /\ \E p \in Procs :
        /\ wire[p].oracle = <<"server", "server">>
        /\ reply[p] = [status |-> "server", body |-> "json"]
        /\ calls[p].embed = Retries + 1

(* ---------------------------------------------------------------------- *)
(* POST /api/auth/login, /refresh, /logout                                 *)
(* ---------------------------------------------------------------------- *)
\* res.json(...): the response is sent and the handler's locals are gone
Answer(p, kind, u, tok) ==
    /\ apc' = [apc EXCEPT ![p] = "idle"]
    /\ aloc' = [aloc EXCEPT ![p] = NoLocals]
    /\ aresp' = [kind |-> kind, user |-> u, token |-> tok]

AuthArrive(p) ==
    /\ apc[p] = "idle"
    /\ areqs < MaxAuthReq
    /\ areqs' = areqs + 1

\* findOne({email}): the documents with that address
ByEmail(e) == {u \in users : acct[u].email = e}

\* auth.routes.js:100, part_002:435   user.lockUntil && lockUntil > Date.now()
IsLocked(lockUntil, t) == lockUntil # NoTime /\ lockUntil > t

\* the refresh tokens issued so far, with the one just signed
Issued(tok) == [t \in DOMAIN accepts \cup {tok} |->
                    IF t \in DOMAIN accepts THEN accepts[t] ELSE 0]

\* document.save() of Mongoose sends the paths whose value differs from the
\* one the document was loaded with; an update of NeDB sends what $set names
Saved(cur, snap, new) == IF Mongoose /\ new = snap THEN cur ELSE new

\* auth.routes.js:94-106, part_002:427-443: findOne, lock check, status check
LoginFind(p, e, pwd) ==
    /\ AuthArrive(p)
    /\ LET found == ByEmail(normalizeEmail(e)) IN
       IF found = {} THEN Answer(p, "InvalidCredentials", NoId, NoToken)
       ELSE LET u == CHOOSE v \in found : TRUE IN
            IF IsLocked(acct[u].lockUntil, clock)
            THEN Answer(p, "Locked", u, NoToken)
            ELSE IF status[u] # "active" THEN Answer(p, "NotActive", u, NoToken)
            ELSE /\ apc' = [apc EXCEPT ![p] = "compare"]
                 /\ aloc' = [aloc EXCEPT ![p] =
                        [NoLocals EXCEPT !.kind = "login", !.user = u,
                                         !.attempts = acct[u].loginAttempts,
                                         !.lockUntil = acct[u].lockUntil,
                                         !.peak = acct[u].peak,
                                         !.stored = acct[u].refreshToken,
                                         !.pwd = pwd]]
                 /\ UNCHANGED aresp
    /\ UNCHANGED <<nonSession, acct, second, accepts>>

\* auth.routes.js:108-115, part_002:445-454: the password does not match; the
\* counter written is the one read plus one
LoginFail(p) ==
    /\ apc[p] = "compare"
    /\ aloc[p].pwd = "wrong"
    /\ LET u == aloc[p].user
           attempts == aloc[p].attempts + 1
       IN  /\ acct' = [acct EXCEPT
                  ![u].loginAttempts = attempts,
                  ![u].peak = IF attempts > @ THEN attempts ELSE @,
                  ![u].lockUntil = IF attempts >= MaxLoginAttempts
                                   THEN clock + LockMs \div 60000 ELSE @]
           /\ Answer(p, "InvalidCredentials", u, NoToken)
    /\ UNCHANGED <<nonSession, second, areqs, accepts>>

\* auth.routes.js:117: $set {loginAttempts: 0, lockUntil: null, lastLogin}
LoginReset(p) ==
    /\ ~Mongoose
    /\ apc[p] = "compare"
    /\ aloc[p].pwd = "right"
    /\ acct' = [acct EXCEPT ![aloc[p].user].loginAttempts = 0,
                            ![aloc[p].user].peak = 0,
                            ![aloc[p].user].lockUntil = NoTime]
    /\ apc' = [apc EXCEPT ![p] = "token"]
    /\ UNCHANGED <<nonSession, second, areqs, aloc, aresp, accepts>>

\* auth.routes.js:119-132: generateTokens, $set {refreshToken}, the answer
LoginToken(p) ==
    /\ apc[p] = "token"
    /\ aloc[p].kind = "login"
    /\ \E s \in {second, second + 1} :
        LET u == aloc[p].user
            tok == Token(u, s)
        IN  /\ second' = s
            /\ acct' = [acct EXCEPT ![u].refreshToken = tok]
            /\ accepts' = Issued(tok)
            /\ Answer(p, "LoggedIn", u, tok)
    /\ UNCHANGED <<nonSession, areqs>>

\* part_002:456-479: loginAttempts = 0, lockUntil = undefined, lastLogin,
\* refreshToken, then one save()
LoginSave(p) ==
    /\ Mongoose
    /\ apc[p] = "compare"
    /\ aloc[p].pwd = "right"
    /\ \E s \in {second, second + 1} :
        LET u == aloc[p].user
            tok == Token(u, s)
        IN  /\ second' = s
            /\ acct' = [acct EXCEPT
                   ![u].loginAttempts = Saved(@, aloc[p].attempts, 0),
                   ![u].peak = IF Saved(acct[u].loginAttempts, aloc[p].attempts, 0) = 0
                               THEN 0 ELSE @,
                   ![u].lockUntil = Saved(@, aloc[p].lockUntil, NoTime),
                   ![u].refreshToken = Saved(@, aloc[p].stored, tok)]
            /\ accepts' = Issued(tok)
            /\ Answer(p, "LoggedIn", u, tok)
    /\ UNCHANGED <<nonSession, areqs>>

\* auth.routes.js:143-151, part_002:490-500: jwt.verify, findOne, the
\* comparison with the stored token
RefreshFind(p, tok) ==
    /\ AuthArrive(p)
    /\ IF tok = NoToken THEN Answer(p, "TokenRequired", NoId, NoToken)
       ELSE IF tok = BadToken THEN Answer(p, "InvalidToken", NoId, NoToken)
       ELSE IF tok.id \notin users \/ acct[tok.id].refreshToken # tok
            THEN Answer(p, "InvalidToken", tok.id, NoToken)
       ELSE /\ apc' = [apc EXCEPT ![p] = "rotate"]
            /\ aloc' = [aloc EXCEPT ![p] =
                   [NoLocals EXCEPT !.kind = "refresh", !.user = tok.id,
                                    !.stored = acct[tok.id].refreshToken,
                                    !.token = tok]]
            /\ UNCHANGED aresp
    /\ UNCHANGED <<nonSession, acct, second, accepts>>

\* auth.routes.js:153-155, part_002:502-506: generateTokens, the new token
\* stored, the answer
Rotate(cur, snap, new) == Saved(cur, snap, new)

RefreshRotate(p) ==
    /\ apc[p] = "rotate"
    /\ \E s \in {second, second + 1} :
        LET u == aloc[p].user
            tok == Token(u, s)
        IN  /\ second' = s
            /\ acct' = [acct EXCEPT
                   ![u].refreshToken = Rotate(@, aloc[p].stored, tok)]
            /\ accepts' = [Issued(tok) EXCEPT ![aloc[p].token] = @ + 1]
            /\ Answer(p, "Refreshed", u, tok)
    /\ UNCHANGED <<nonSession, areqs>>

\* auth.routes.js:162-171, part_002:513-524: whatever happens the answer is
\* "Logged out"
Logout(p, tok) ==
    /\ AuthArrive(p)
    /\ acct' = IF tok \notin {NoToken, BadToken} /\ tok.id \in users
               THEN [acct EXCEPT ![tok.id].refreshToken = NoToken]
               ELSE acct
    /\ Answer(p, "LoggedOut", NoId, NoToken)
    /\ UNCHANGED <<nonSession, second, accepts>>

\* the lock of an account runs out: the clock moves on to its lockUntil
Elapse ==
    /\ \E u \in users :
        /\ IsLocked(acct[u].lockUntil, clock)
        /\ clock' = acct[u].lockUntil
    /\ UNCHANGED <<ticks, users, settings, attendance, nextId, reqs,
                   pc, uid, now, deadline, att, seen, asked, resp, okIn, okOut,
                   faceVars, adminVars, clientVars, authVars>>

\* the addresses and passwords login requests carry
LoginEmails == {"ANN@x.io", "zed@x.io"}
Passwords == {"right", "wrong"}

LoginStep(p) ==
    \/ \E e \in LoginEmails : \E pwd \in Passwords : LoginFind(p, e, pwd)
    \/ LoginFail(p)
    \/ LoginReset(p)
    \/ LoginToken(p)
    \/ LoginSave(p)

NextLogin ==
    \/ Elapse
    \/ \E p \in Procs : LoginStep(p)

\* attempts failed logins of u1 have been counted since her last login
InitLogin ==
    /\ LedgerInit(<<568, Str0930>>)
    /\ \E b \in AuthBuilds : FaceInit(b)
    /\ AdminInit("listening")
    /\ ClientInit
    /\ \E n \in {2, 4} :
        SessionInit([Registered EXCEPT !["u1"].loginAttempts = n,
                                       !["u1"].peak = n], {})
    /\ BrowserInit(NoStore) /\ GuardInit

SpecLogin == InitLogin /\ [][NextLogin]_vars

\* the tokens a refresh or a logout request can carry: one the server has
\* signed, none, or a string that is not a token
TokenInputs == DOMAIN accepts \cup {NoToken, BadToken}

SessionStep(p) ==
    \/ \E pwd \in Passwords : LoginFind(p, "ANN@x.io", pwd)
    \/ LoginFail(p)
    \/ LoginReset(p)
    \/ LoginToken(p)
    \/ LoginSave(p)
    \/ \E tok \in TokenInputs : RefreshFind(p, tok)
    \/ RefreshRotate(p)
    \/ \E tok \in TokenInputs : Logout(p, tok)

NextSession == \E p \in Procs : SessionStep(p)

\* u1 has logged in during second 0 and holds the refresh token signed then
InitSession ==
    /\ LedgerInit(<<568, Str0930>>)
    /\ \E b \in AuthBuilds : FaceInit(b)
    /\ AdminInit("listening")
    /\ ClientInit
    /\ SessionInit([Registered EXCEPT !["u1"].refreshToken = Token("u1", 0)],
                   {Token("u1", 0)})
    /\ BrowserInit(NoStore) /\ GuardInit

SpecSession == InitSession /\ [][NextSession]_vars

(* ---------------------------------------------------------------------- *)
(* POST /api/auth/register                                                 *)
(* ---------------------------------------------------------------------- *)
\* findOne({employeeId})
ByEmployeeId(emp) == {u \in users : acct[u].employeeId = emp}

\* db.js:17-18, User.js:6, 9: the unique indexes on email and employeeId
\* admit the document
InsertUnique(e, emp) == ByEmail(e) = {} /\ ByEmployeeId(emp) = {}

\* the state the register route leaves alone
nonRegister == <<ledgerVars, faceVars, adminVars, clientVars, browserVars, guardVars>>

\* auth.routes.js:36-44, part_002:367-375: validation with normalizeEmail(),
\* then findOne({email}) over NeDB, findOne({$or: [{email}, {employeeId}]})
\* over Mongoose
RegisterFind(p, e, emp) ==
    /\ AuthArrive(p)
    /\ LET em == normalizeEmail(e)
           found == IF Mongoose THEN ByEmail(em) \cup ByEmployeeId(emp)
                    ELSE ByEmail(em)
       IN  IF found # {}
           THEN Answer(p, "Conflict", NoId, NoToken)
           ELSE /\ apc' = [apc EXCEPT ![p] = IF Mongoose THEN "create" ELSE "employee"]
                /\ aloc' = [aloc EXCEPT ![p] =
                       [NoLocals EXCEPT !.kind = "register", !.email = em,
                                        !.emp = emp]]
                /\ UNCHANGED aresp
    /\ UNCHANGED <<users, nonRegister, acct, second, accepts>>

\* auth.routes.js:46-50: findOne({employeeId}), then the password is hashed
RegisterFindEmployee(p) ==
    /\ apc[p] = "employee"
    /\ IF ByEmployeeId(aloc[p].emp) # {}
       THEN Answer(p, "Conflict", NoId, NoToken)
       ELSE apc' = [apc EXCEPT ![p] = "create"] /\ UNCHANGED <<aloc, aresp>>
    /\ UNCHANGED <<users, nonRegister, acct, second, areqs, accepts>>

\* auth.routes.js:52-65, part_002:377-383: db.users.insert / User.create
RegisterCreate(p, id) ==
    /\ apc[p] = "create"
    /\ id \in Users \ users
    /\ InsertUnique(aloc[p].email, aloc[p].emp)
    /\ users' = users \cup {id}
    /\ acct' = [acct EXCEPT ![id] = Account(aloc[p].email, aloc[p].emp)]
    /\ apc' = [apc EXCEPT ![p] = "issue"]
    /\ aloc' = [aloc EXCEPT ![p].user = id]
    /\ UNCHANGED <<nonRegister, second, areqs, aresp, accepts>>

\* auth.routes.js:75-79, part_002:406-409: the index rejects the document;
\* over NeDB the catch answers 409 for errorType uniqueViolated, over
\* Mongoose every error is answered 500
RegisterRejected(p) ==
    /\ apc[p] = "create"
    /\ ~InsertUnique(aloc[p].email, aloc[p].emp)
    /\ Answer(p, IF Mongoose THEN "ServerError" ELSE "Conflict", NoId, NoToken)
    /\ UNCHANGED <<users, nonRegister, acct, second, areqs, accepts>>

\* auth.routes.js:67-74, part_002:385-404: generateTokens, the refresh token
\* is stored, 201
RegisterIssue(p) ==
    /\ apc[p] = "issue"
    /\ \E s \in {second, second + 1} :
        LET u == aloc[p].user
            tok == Token(u, s)
        IN  /\ second' = s
            /\ acct' = [acct EXCEPT ![u].refreshToken = tok]
            /\ accepts' = Issued(tok)
            /\ Answer(p, "Registered", u, tok)
    /\ UNCHANGED <<users, nonRegister, areqs>>

RegisterStep(p) ==
    \/ \E e \in EmailInputs : \E emp \in EmployeeIds : RegisterFind(p, e, emp)
    \/ RegisterFindEmployee(p)
    \/ \E id \in Users : RegisterCreate(p, id)
    \/ RegisterRejected(p)
    \/ RegisterIssue(p)

NextRegister == \E p \in Procs : RegisterStep(p)

\* ann is registered; nobody else is
InitRegister ==
    /\ settings = <<DefaultSettings>>
    /\ users = {"u1"}
    /\ NoMarks(568)
    /\ \E b \in AuthBuilds : FaceInit(b)
    /\ AdminInit("listening")
    /\ ClientInit
    /\ SessionInit([Registered EXCEPT !["u2"] = NoAccount], {})
    /\ BrowserInit(NoStore) /\ GuardInit

SpecRegister == InitRegister /\ [][NextRegister]_vars

(* ---------------------------------------------------------------------- *)
(* POST /api/attendance/mark with the liveness result of the scan          *)
(* ---------------------------------------------------------------------- *)
\* auth.routes.js:186: the body is destructured when the request arrives
MarkWith(p, u, b) ==
    /\ MarkCall(p, u)
    /\ mbody' = [mbody EXCEPT ![p] = b]
    /\ UNCHANGED <<held, matches, marks>>

\* auth.routes.js:209-287: the end of the handler, with the body it read
MarkEndWith(p) ==
    \/ MarkCheckIn(p, mbody[p][1], mbody[p][2])
    \/ MarkCreateFails(p, mbody[p][1], mbody[p][2])
    \/ MarkTooSoon(p)
    \/ MarkAlreadyComplete(p)
    \/ MarkCheckOut(p, mbody[p][1], mbody[p][2])

NextLiveMark ==
    \/ Later
    \/ \E p \in Procs : \E b \in LiveBodies : MarkWith(p, "u1", b)
    \/ \E p \in Procs : MarkSettings(p)
    \/ \E p \in Procs : MarkFind(p)
    \/ \E p \in Procs : MarkEndWith(p)

InitLiveMark ==
    /\ LedgerInit(<<568, Str0930>>)
    /\ FaceInit("retry")
    /\ AdminInit("listening")
    /\ ClientInit
    /\ AuthInit

SpecLiveMark == InitLiveMark /\ [][NextLiveMark]_vars

(* ---------------------------------------------------------------------- *)
(* apiFetch: the page's calls to the API                                   *)
(* ---------------------------------------------------------------------- *)
\* localStorage after a login
LoggedInStore == [accessToken |-> "A0", refreshToken |-> "R0", user |-> "ann"]

\* what a fetch of the page settles with: a response with a status, or a
\* rejection (the network failed)
FetchOutcomes == {"200", "401", "403", "500", "neterr"}

\* refreshRes.ok
IsOk(st) == st = "200"

\* the body /auth/refresh sends with a 200 (auth.routes.js:155): new tokens
RefreshData ==
    {[accessToken |-> "A1", refreshToken |-> "R1"],
     [accessToken |-> "A2", refreshToken |-> "R2"]}

\* a setTokens that keeps the old refresh token
setTokensAccessOnly(st, access, refresh) == [st EXCEPT !.accessToken = access]

\* part_000:15-18
setTokens(st, access, refresh) ==
    [st EXCEPT !.accessToken = access,
               !.refreshToken = IF refresh # "none" THEN refresh ELSE @]

\* part_000:20-24
clearTokens(st) == NoStore

\* return, or the rejection of the promise apiFetch returned
Return(c, r) ==
    /\ cpc' = [cpc EXCEPT ![c] = "idle"]
    /\ cret' = [cret EXCEPT ![c] = r]

\* part_000:26-38: the header is built from getToken() and the request sent
CallBegin(c) ==
    /\ page = "open"
    /\ cpc[c] = "idle"
    /\ ccalls < MaxCalls
    /\ ccalls' = ccalls + 1
    /\ cpc' = [cpc EXCEPT ![c] = "first"]
    /\ cloc' = [cloc EXCEPT ![c] =
           [NoCallLocals EXCEPT !.auth = IF store.accessToken # "null"
                                         THEN store.accessToken ELSE "none"]]
    /\ sent' = [sent EXCEPT ![c] = [NoFetches EXCEPT !.first = 1]]
    /\ cret' = [cret EXCEPT ![c] = "pending"]
    /\ UNCHANGED <<nonBrowser, store, page>>

\* part_000:38-46, 60: the first fetch settles; after a 401, and with a
\* refresh token in the store, the refresh request is sent
FirstSettles(c, out) ==
    /\ cpc[c] = "first"
    /\ IF out = "neterr"
       THEN /\ Return(c, "threw")
            /\ cloc' = [cloc EXCEPT ![c].got = out]
            /\ UNCHANGED sent
       ELSE IF out = "401" /\ store.refreshToken # "null"
       THEN /\ cpc' = [cpc EXCEPT ![c] = "refresh"]
            /\ cloc' = [cloc EXCEPT ![c].body = store.refreshToken,
                                    ![c].got = out]
            /\ sent' = [sent EXCEPT ![c].refresh = @ + 1]
            /\ UNCHANGED cret
       ELSE /\ Return(c, out)
            /\ cloc' = [cloc EXCEPT ![c].got = out]
            /\ UNCHANGED sent
    /\ UNCHANGED <<nonBrowser, store, page, ccalls>>

\* part_000:48-57: the refresh request settles
RefreshSettles(c, out, data) ==
    /\ cpc[c] = "refresh"
    /\ IF out = "neterr"
       THEN /\ Return(c, "threw")
            /\ cloc' = [cloc EXCEPT ![c].got = out]
            /\ UNCHANGED <<store, page, sent>>
       ELSE IF IsOk(out)
       THEN /\ store' = setTokens(store, data.accessToken, data.refreshToken)
            /\ cloc' = [cloc EXCEPT ![c].auth = data.accessToken,
                                    ![c].got = out, ![c].data = data]
            /\ sent' = [sent EXCEPT ![c].retry = @ + 1]
            /\ cpc' = [cpc EXCEPT ![c] = "retry"]
            /\ UNCHANGED <<page, cret>>
       ELSE /\ store' = clearTokens(store)
            /\ page' = "leaving"
            /\ cloc' = [cloc EXCEPT ![c].got = out]
            /\ Return(c, "null")
            /\ UNCHANGED sent
    /\ UNCHANGED <<nonBrowser, ccalls>>

\* part_000:52, 60: the repeated request settles and its response is returned
RetrySettles(c, out) ==
    /\ cpc[c] = "retry"
    /\ Return(c, IF out = "neterr" THEN "threw" ELSE out)
    /\ cloc' = [cloc EXCEPT ![c].got = out]
    /\ UNCHANGED <<nonBrowser, store, page, ccalls, sent>>

\* part_000:55  window.location.href = '/': the document is replaced and the
\* calls it had in progress go with it; localStorage stays
Unload ==
    /\ page = "leaving"
    /\ page' = "open"
    /\ cpc' = [c \in Procs |-> "idle"]
    /\ cret' = [c \in Procs |-> IF cpc[c] # "idle" THEN "unloaded" ELSE cret[c]]
    /\ UNCHANGED <<nonBrowser, store, ccalls, cloc, sent>>

\* a fetch of call c settles
Settle(c) ==
    \/ \E out \in FetchOutcomes : FirstSettles(c, out)
    \/ \E out \in FetchOutcomes : \E data \in RefreshData :
           RefreshSettles(c, out, data)
    \/ \E out \in FetchOutcomes : RetrySettles(c, out)

NextBrowser ==
    \/ \E c \in Procs : CallBegin(c)
    \/ \E c \in Procs : Settle(c)
    \/ Unload

InitBrowser ==
    /\ LedgerInit(<<568, Str0930>>)
    /\ FaceInit("retry")
    /\ AdminInit("listening")
    /\ ClientInit
    /\ SessionInit(Registered, {})
    /\ BrowserInit(LoggedInStore) /\ GuardInit

\* every fetch settles, with a response or with a rejection, and the
\* navigation the page has asked for takes place
SpecBrowser ==
    /\ InitBrowser
    /\ [][NextBrowser]_vars
    /\ \A c \in Procs : WF_vars(Settle(c))
    /\ WF_vars(Unload)

(* ---------------------------------------------------------------------- *)
(* The admin router: verifyToken, requireRole("admin"), the users routes   *)
(* ---------------------------------------------------------------------- *)
\* middleware/auth.js:7-25: the status it answers with, or "next" and req.user
verifyToken(h) ==
    IF ~h.bearer THEN [status |-> "401", user |-> NoUser]
    ELSE IF ~h.signed THEN [status |-> "403", user |-> NoUser]
    ELSE IF h.expired THEN [status |-> "401", user |-> NoUser]
    ELSE [status |-> "next", user |-> [id |-> h.id, role |-> h.role]]

\* a guard that lets every authenticated user through
requireRoleAny(roles, user) ==
    IF user = NoUser THEN "401" ELSE "next"

\* middleware/auth.js:31-41
requireRole(roles, user) ==
    IF user = NoUser THEN "401"
    ELSE IF user.role \notin roles THEN "403"
    ELSE "next"

\* part_002:10, 210  router.use(verifyToken, requireRole("admin"))
Guard(h) ==
    LET v == verifyToken(h)
    IN  IF v.status # "next" THEN v
        ELSE [status |-> requireRole({"admin"}, v.user), user |-> v.user]

AdminArrive(a, h) ==
    /\ gpc[a] = "idle"
    /\ greqs < MaxAdminReq
    /\ greqs' = greqs + 1

\* res.status(...).json(...) of the admin router to the request that came
\* with header h; the request is gone
AdminAnswer(a, h, kind) ==
    /\ gresp' = [kind |-> kind, hdr |-> h]
    /\ gpc' = [gpc EXCEPT ![a] = "idle"]
    /\ greq' = [greq EXCEPT ![a] = NoRequest]

\* the request as the handler sees it
Request(h, u, st) ==
    [hdr |-> h, user |-> Guard(h).user, id |-> u, status |-> st]

\* middleware/auth.js:9-11, 20-23, 33-38: a middleware answers and the
\* handler is not called
AdminDenied(a, h) ==
    /\ AdminArrive(a, h)
    /\ Guard(h).status # "next"
    /\ AdminAnswer(a, h, Guard(h).status)
    /\ UNCHANGED <<users, attendance, status, removed, nonUsers>>

\* part_002:39-47, 231-238: PUT /users/:id/status up to the find
StatusFind(a, h, u, st) ==
    /\ AdminArrive(a, h)
    /\ Guard(h).status = "next"
    /\ IF st \notin Statuses THEN AdminAnswer(a, h, "400")
       ELSE IF u \notin users THEN AdminAnswer(a, h, "404")
       ELSE /\ gpc' = [gpc EXCEPT ![a] = "statusSave"]
            /\ greq' = [greq EXCEPT ![a] = Request(h, u, st)]
            /\ UNCHANGED gresp
    /\ UNCHANGED <<users, attendance, status, removed, nonUsers>>

\* part_002:49-52, 240-241: user.save() / db.users.update; when the document
\* has been deleted meanwhile nothing is stored, and save() rejects or not
\* with the version of Mongoose
StatusSave(a, kind) ==
    /\ gpc[a] = "statusSave"
    /\ status' = IF greq[a].id \in users
                 THEN [status EXCEPT ![greq[a].id] = greq[a].status]
                 ELSE status
    /\ kind \in IF greq[a].id \notin users /\ Mongoose
                THEN {"ok", "500"} ELSE {"ok"}
    /\ AdminAnswer(a, greq[a].hdr, kind)
    /\ UNCHANGED <<users, attendance, greqs, removed, nonUsers>>

\* part_002:59-62, 245-248: DELETE /users/:id up to the find
DeleteFind(a, h, u) ==
    /\ AdminArrive(a, h)
    /\ Guard(h).status = "next"
    /\ IF u \notin users THEN AdminAnswer(a, h, "404")
       ELSE /\ gpc' = [gpc EXCEPT ![a] = "deleteFirst"]
            /\ greq' = [greq EXCEPT ![a] = Request(h, u, "none")]
            /\ UNCHANGED gresp
    /\ UNCHANGED <<users, attendance, status, removed, nonUsers>>

\* the attendance collection without the records of user u
WithoutRecordsOf(u) == {d \in attendance : d.userId # u}

\* part_002:65  Attendance.deleteMany({userId})  and
\* part_002:249  db.users.remove({_id})
DeleteFirst(a) ==
    /\ gpc[a] = "deleteFirst"
    /\ IF Mongoose
       THEN attendance' = WithoutRecordsOf(greq[a].id) /\ UNCHANGED users
       ELSE users' = users \ {greq[a].id} /\ UNCHANGED attendance
    /\ gpc' = [gpc EXCEPT ![a] = "deleteSecond"]
    /\ UNCHANGED <<status, greqs, greq, gresp, removed, nonUsers>>

\* part_002:68-70  User.findByIdAndDelete(_id)  and
\* part_002:250-251  db.attendance.remove({userId}, {multi: true})
DeleteSecond(a) ==
    /\ gpc[a] = "deleteSecond"
    /\ IF Mongoose
       THEN users' = users \ {greq[a].id} /\ UNCHANGED attendance
       ELSE attendance' = WithoutRecordsOf(greq[a].id) /\ UNCHANGED users
    /\ removed' = removed \cup {greq[a].id}
    /\ AdminAnswer(a, greq[a].hdr, "ok")
    /\ UNCHANGED <<status, greqs, nonUsers>>

\* req.params.id and req.body.status of the requests
AdminIdInputs == {"u1", GhostId}
StatusBodies == {"suspended", "banned"}

AdminStep(a) ==
    \/ \E h \in Headers : AdminDenied(a, h)
    \/ \E h \in Headers : \E u \in AdminIdInputs : \E st \in StatusBodies :
           StatusFind(a, h, u, st)
    \/ \E kind \in {"ok", "500"} : StatusSave(a, kind)
    \/ \E h \in Headers : \E u \in AdminIdInputs : DeleteFind(a, h, u)
    \/ DeleteFirst(a)
    \/ DeleteSecond(a)

\* the admin works on the users while u1 marks attendance
NextAdmin ==
    \/ \E a \in AdminProcs : AdminStep(a)
    \/ \E p \in Procs : MarkBegin(p, "u1")
    \/ \E p \in Procs : MarkSettings(p)
    \/ \E p \in Procs : MarkFind(p)
    \/ \E p \in Procs : MarkCheckIn(p, 91, "absent")
    \/ \E p \in Procs : MarkCreateFails(p, 91, "absent")
    \/ \E p \in Procs : MarkTooSoon(p)

InitAdmin ==
    /\ LedgerInit(<<568, Str0930>>)
    /\ \E b \in AuthBuilds : FaceInit(b)
    /\ AdminInit("listening")
    /\ ClientInit
    /\ AuthInit

SpecAdmin == InitAdmin /\ [][NextAdmin]_vars

(* ---------------------------------------------------------------------- *)
(* Properties of the auth routes                                           *)
(* ---------------------------------------------------------------------- *)
\* the step in which a login request for u is answered with the tokens
LoginSucceeds(u) ==
    \E p \in Procs :
        /\ apc[p] # "idle" /\ apc'[p] = "idle"
        /\ aloc[p].kind = "login" /\ aloc[p].user = u
        /\ aresp'.kind = "LoggedIn"

\* the step in which the password of a login request for u is accepted
PasswordAccepted(u) ==
    \E p \in Procs :
        /\ apc[p] = "compare" /\ apc'[p] # "compare"
        /\ aloc[p].user = u /\ aloc[p].pwd = "right"

\* the step in which a login request for u fails on its password
PasswordRejected(u) ==
    \E p \in Procs :
        /\ apc[p] = "compare" /\ apc'[p] = "idle"
        /\ aloc[p].user = u /\ aloc[p].pwd = "wrong"

\* C31: while an account's lockUntil is in the future no login request for
\* the account completes successfully and the lock is not cleared or
\* shortened, whatever the interleaving of the login requests
C31_NoLoginWhileLocked ==
    [][\A u \in Users :
        IsLocked(acct[u].lockUntil, clock)
            => /\ ~LoginSucceeds(u)
               /\ acct'[u].lockUntil # NoTime
               /\ acct'[u].lockUntil >= acct[u].lockUntil]_vars

\* loginAttempts goes back to 0 only in a step that accepts the password
ResetOnlyBySuccess ==
    [][\A u \in Users :
        acct[u].loginAttempts # 0 /\ acct'[u].loginAttempts = 0
            => PasswordAccepted(u)]_vars

\* a failed attempt that leaves the counter at 5 or more sets lockUntil 15
\* minutes ahead
FifthFailureLocks ==
    [][\A u \in Users :
        PasswordRejected(u) /\ acct'[u].loginAttempts >= MaxLoginAttempts
            => acct'[u].lockUntil = clock + LockMs \div 60000]_vars

\* the step in which a login request for u fails on its password, the request
\* having arrived after the counter had reached 5, and the counter not
\* having been reset since
RejectedAfterLock(u) ==
    \E p \in Procs :
        /\ apc[p] = "compare" /\ apc'[p] = "idle"
        /\ aloc[p].user = u /\ aloc[p].pwd = "wrong"
        /\ aloc[p].peak >= MaxLoginAttempts
        /\ acct[u].peak >= MaxLoginAttempts

\* a failed attempt made after the counter has reached 5 sets lockUntil 15
\* minutes ahead
LaterFailureLocks ==
    [][\A u \in Users :
        RejectedAfterLock(u)
            => acct'[u].lockUntil = clock + LockMs \div 60000]_vars

\* C32: loginAttempts is reset to 0 only by a successful login; a failed
\* attempt that brings it to 5 or more sets lockUntil 15 minutes ahead; once
\* the counter has reached 5 every later failed attempt locks the account
\* again
C32_LockoutCounter ==
    [][\A u \in Users :
        /\ acct[u].loginAttempts # 0 /\ acct'[u].loginAttempts = 0
               => PasswordAccepted(u)
        /\ PasswordRejected(u) /\ acct'[u].loginAttempts >= MaxLoginAttempts
               => acct'[u].lockUntil = clock + LockMs \div 60000
        /\ RejectedAfterLock(u)
               => acct'[u].lockUntil = clock + LockMs \div 60000]_vars

\* C33: a refresh token is accepted by /refresh at most once, also when two
\* refresh requests carry it at the same time
C33_RefreshTokenOnce == \A t \in DOMAIN accepts : accepts[t] <= 1

(* ---------------------------------------------------------------------- *)
(* Properties of apiFetch                                                  *)
(* ---------------------------------------------------------------------- *)
\* the step in which call c gets the answer to its refresh request
RefreshAnswered(c, outs) ==
    /\ cpc[c] = "refresh" /\ cpc'[c] # "refresh"
    /\ cret'[c] # "unloaded"
    /\ cloc'[c].got \in outs

\* C34: a call of apiFetch makes at most one refresh request and at most one
\* retry and always returns (or goes with its page); an accepted refresh
\* stores the new tokens and repeats the request with the new access token; a
\* rejected one clears the stored tokens and returns null without a retry
C34_ApiFetchRefreshesOnce ==
    /\ [](\A c \in Procs : sent[c].first <= 1 /\ sent[c].refresh <= 1
                              /\ sent[c].retry <= 1)
    /\ [][\A c \in Procs :
            /\ RefreshAnswered(c, {"200"})
                 => /\ store'.accessToken = cloc'[c].data.accessToken
                    /\ store'.refreshToken = cloc'[c].data.refreshToken
                    /\ cloc'[c].auth = cloc'[c].data.accessToken
                    /\ cpc'[c] = "retry" /\ sent'[c].retry = 1
            /\ RefreshAnswered(c, {"401", "403", "500"})
                 => /\ store' = NoStore
                    /\ cpc'[c] = "idle" /\ cret'[c] = "null"
                    /\ sent'[c].retry = 0]_vars
    /\ \A c \in Procs : (cpc[c] # "idle") ~> (cpc[c] = "idle")

\* one call has returned the response of its retry after an accepted refresh
\* and another has returned null after a rejected one
C34_Witness ==
    \E c, d \in Procs :
        /\ cpc[c] = "idle" /\ sent[c] = [first |-> 1, refresh |-> 1, retry |-> 1]
        /\ cret[c] = "200" /\ cloc[c].auth \in {"A1", "A2"}
        /\ cpc[d] = "idle" /\ cret[d] = "null" /\ sent[d].refresh = 1

(* ---------------------------------------------------------------------- *)
(* Properties of the admin router                                          *)
(* ---------------------------------------------------------------------- *)
\* a token that is valid and carries the role admin
AdminToken(h) == h.bearer /\ h.signed /\ ~h.expired /\ h.role = "admin"

\* C35: a request to the admin router that does not carry a valid token
\* with the role admin is answered 401 or 403, starts no handler and changes
\* no stored document; a handler runs, and users are changed or deleted,
\* only for a request with such a token
C35_AdminOnly ==
    /\ [](\A a \in AdminProcs : gpc[a] # "idle" => AdminToken(greq[a].hdr))
    /\ [][(greqs' # greqs /\ gpc' = gpc /\ ~AdminToken(gresp'.hdr))
             => /\ gresp'.kind \in {"401", "403"}
                /\ UNCHANGED <<users, attendance, status, settings>>]_vars
    /\ [][(users' # users \/ status' # status)
             => \E a \in AdminProcs : gpc[a] # "idle" /\ AdminToken(greq[a].hdr)]_vars

\* an admin has deleted a user, and a later request with a student's token
\* has been answered 403
C35_Witness ==
    /\ removed # {}
    /\ gresp.kind = "403"
    /\ gresp.hdr.role = "student" /\ gresp.hdr.signed /\ ~gresp.hdr.expired

\* C36: once the deletion of a user has been answered, no attendance record
\* refers to that user
C36_NoRecordOfDeletedUser ==
    \A u \in removed : \A d \in attendance : d.userId # u

(* ---------------------------------------------------------------------- *)
(* Properties of the register route                                        *)
(* ---------------------------------------------------------------------- *)
\* no two users share an email address or an employeeId
UniqueUsers ==
    \A u, v \in users :
        u # v => /\ acct[u].email # acct[v].email
                 /\ acct[u].employeeId # acct[v].employeeId

\* the registration of slot p is answered in this step
RegisterAnswered(p) ==
    apc[p] # "idle" /\ apc'[p] = "idle" /\ aloc[p].kind = "register"

\* C37: no two users share an email address or an employeeId, and a
\* registration that is answered while a user with its address or its
\* employeeId exists is answered with a conflict and creates no user
C37_UniqueOrConflict ==
    /\ []UniqueUsers
    /\ [][\A p \in Procs :
            (RegisterAnswered(p) /\ aloc[p].user = NoId
               /\ ~InsertUnique(aloc[p].email, aloc[p].emp))
              => aresp'.kind = "Conflict" /\ users' = users]_vars

(* ---------------------------------------------------------------------- *)
(* Properties of the liveness a mark stores                                *)
(* ---------------------------------------------------------------------- *)
\* the record of the key of slot p's request, after the step
RecordAfter(p) == CHOOSE d \in attendance' :
                      d.userId = uid[p] /\ d.date = DateString(now[p])

\* the liveness the request of slot p is to store
Supplied(p) == IF mbody[p][2] \in {"true", "false"} THEN mbody[p][2] = "true"
               ELSE TRUE

\* C38: a mark stores, in the sub-record it writes, the is_live of its
\* request, or true when the request carries none; and whatever the
\* liveness, a mark that finds no record checks in and one that finds an
\* open record past the cooldown checks out
C38_LivenessStoredNeverRejects ==
    [][\A p \in Procs :
         (pc[p] = "found" /\ pc'[p] = "idle")
           => /\ resp' = "check-in"
                   => RecordAfter(p).checkIn.liveness = Supplied(p)
              /\ resp' = "check-out"
                   => RecordAfter(p).checkOut.liveness = Supplied(p)
              /\ (att[p]._id = 0 /\ Matching(uid[p], DateString(now[p])) = {})
                   => resp' = "check-in"
              /\ (att[p]._id # 0 /\ ~TooSoon(now[p], att[p]) /\ ~AlreadyOut(att[p]))
                   => resp' = "check-out"]_vars

\* a record checked in with is_live = false and checked out by a request
\* without a liveness result
C38_Witness ==
    \E d \in attendance :
        /\ d.checkIn.time # NoTime /\ d.checkIn.liveness = FALSE
        /\ d.checkOut.time # NoTime /\ d.checkOut.liveness = TRUE
        /\ \E p \in Procs : pc[p] = "idle" /\ mbody[p][2] \in {"absent", "null", "empty"}
        /\ resp = "check-out"

====
